---- MODULE Spec2Model ----
(***************************************************************************)
(* SYPHN nudge delivery (package tmux): the sentinel / clear / inject      *)
(* protocol of nudgeWithProtocol, clearInput and convergenceClear, driven  *)
(* against a terminal pane.  Strings are sequences of bytes (0..255).      *)
(***************************************************************************)
EXTENDS Integers, Sequences, FiniteSets, TLC

\* ---------------------------------------------------------------- bounds
\* Largest number of lines in the user's input field.
MaxInputLines == 2
\* Largest number of bytes on one line of the user's input.
MaxLineLen == 1
\* Largest number of pane-driver calls that fail within one delivery.
MaxFaults == 1
\* Longest byte string handed to MyersDiff.
MaxDiffLen == 4
\* Longest Equal run (besides the runs around 32 bytes) handed to GroupHunks.
MaxEqualLen == 5
\* Most changed regions in a pair of captures handed to extractOriginalInput.
MaxRegions == 2
\* Longest single-line input typed after a prompt.
MaxTypedLen == 2
\* Most continuation lines of a multi-line input or Deleted region.
MaxContLines == 3
\* Longest candidate prefix handed to trimToNonContent, in bytes.
MaxPrefixLen == 3
\* Longest argument of commonStringPrefix, in code points.
MaxRunes == 2

\* ------------------------------------------------------- program constants
nudgeSentinelDelayMs == 50
nudgeClearIterDelayMs == 50
nudgeInjectDelayMs == 100
nudgeEnterDelayMs == 200
nudgePastePlaceholderLines == 50
nudgeMaxClearIterations == 200
nudgeMinCaptureN == 5
nudgeDiffMarginLines == 20
\* newCycleDetector(8) in convergenceClear
cycleDetectorMaxLen == 8

\* ------------------------------------------------------------------ bytes
NL == 10
SP == 32
TAB == 9

IsDigit(c) == c >= 48 /\ c <= 57

\* ---------------------------------------------------------- string helpers
Min(x, y) == IF x < y THEN x ELSE y
Max(x, y) == IF x > y THEN x ELSE y

\* s[i..] with 1-based i; empty when i is past the end.
Drop(s, k) == SubSeq(s, k + 1, Len(s))
Take(s, k) == SubSeq(s, 1, k)

\* strings.HasPrefix
HasPrefix(s, p) == Len(p) <= Len(s) /\ Take(s, Len(p)) = p

\* strings.Contains
Contains(s, sub) ==
    \E i \in 0..(Len(s) - Len(sub)) : SubSeq(s, i + 1, i + Len(sub)) = sub

\* Index (0-based) of the first byte c in s, or Len(s) when absent.
RECURSIVE IndexByte(_, _)
IndexByte(s, c) ==
    IF s = <<>> THEN 0
    ELSE IF Head(s) = c THEN 0
    ELSE 1 + IndexByte(Tail(s), c)

\* strings.Split(s, "\n"): always at least one element.
RECURSIVE SplitLines(_)
SplitLines(s) ==
    LET k == IndexByte(s, NL) IN
    IF k = Len(s) THEN <<s>>
    ELSE <<Take(s, k)>> \o SplitLines(Drop(s, k + 1))

\* strings.Join(lines, "\n")
RECURSIVE JoinLines(_)
JoinLines(ls) ==
    IF ls = <<>> THEN <<>>
    ELSE IF Len(ls) = 1 THEN ls[1]
    ELSE ls[1] \o <<NL>> \o JoinLines(Tail(ls))

\* strings.TrimRight(s, cutset) for a set of bytes
RECURSIVE TrimRight(_, _)
TrimRight(s, cut) ==
    IF s # <<>> /\ s[Len(s)] \in cut THEN TrimRight(Take(s, Len(s) - 1), cut)
    ELSE s

\* strings.TrimLeft(s, cutset) for a set of bytes
RECURSIVE TrimLeft(_, _)
TrimLeft(s, cut) ==
    IF s # <<>> /\ Head(s) \in cut THEN TrimLeft(Tail(s), cut)
    ELSE s

\* The last n elements of a sequence (all of it when shorter).
LastN(ls, n) == SubSeq(ls, Max(1, Len(ls) - n + 1), Len(ls))

\* ------------------------------------------------- paste placeholder regex
\* pastedTextPlaceholderRe = `\[Pasted text #\d+ \+\d+ lines\]`, matched as the
\* regular expression is: literal, one or more digits, literal, one or more
\* digits, literal, starting at any offset.
ReLit1 == <<91, 80, 97, 115, 116, 101, 100, 32, 116, 101, 120, 116, 32, 35>>
ReLit2 == <<32, 43>>
ReLit3 == <<32, 108, 105, 110, 101, 115, 93>>

LitAt(s, i, lit) == i + Len(lit) - 1 <= Len(s) /\ SubSeq(s, i, i + Len(lit) - 1) = lit

\* Position just after the run of digits that starts at position i.
RECURSIVE SkipDigits(_, _)
SkipDigits(s, i) ==
    IF i <= Len(s) /\ IsDigit(s[i]) THEN SkipDigits(s, i + 1) ELSE i

MatchAt(s, i) ==
    /\ LitAt(s, i, ReLit1)
    /\ LET j == i + Len(ReLit1)
           k == SkipDigits(s, j)
       IN  /\ k > j
           /\ LitAt(s, k, ReLit2)
           /\ LET l == k + Len(ReLit2)
                  m == SkipDigits(s, l)
              IN  m > l /\ LitAt(s, m, ReLit3)

MatchString(s) == \E i \in 1..Len(s) : MatchAt(s, i)

\* "[Pasted text #3 +47 lines]"
PastePlaceholder == ReLit1 \o <<51>> \o ReLit2 \o <<52, 55>> \o ReLit3

\* ------------------------------------------------------------- sentinels
\* makeSentinel: "§" + 4 base32 characters of a hash of the clock + "§".
\* The clock is not modelled: a call yields any of these values.
SectionSign == <<194, 167>>
Sentinels == { SectionSign \o <<65, 66, 67, 68>> \o SectionSign,
               SectionSign \o <<50, 51, 52, 53>> \o SectionSign }

\* findSentinelFromEnd: <<lineIdx, linesFromBottom, found>>, line indices from 0.
RECURSIVE FindFrom(_, _, _)
FindFrom(lines, sentinel, i) ==
    IF i < 0 THEN <<0, 0, FALSE>>
    ELSE IF Contains(lines[i + 1], sentinel) THEN <<i, Len(lines) - 1 - i, TRUE>>
    ELSE FindFrom(lines, sentinel, i - 1)

\* Faulty variant: the first line holding the sentinel is used.
findSentinelFromEnd_First(lines, sentinel) ==
    LET hits == { i \in 0..(Len(lines) - 1) : Contains(lines[i + 1], sentinel) } IN
    IF hits = {} THEN <<0, 0, FALSE>>
    ELSE LET i == CHOOSE h \in hits : \A g \in hits : h <= g
         IN <<i, Len(lines) - 1 - i, TRUE>>

findSentinelFromEnd(lines, sentinel) == FindFrom(lines, sentinel, Len(lines) - 1)

\* ------------------------------------------------------------------- pane
\* The pane is the program's environment.  Three kinds of application run in
\* it: a readline-style line editor (C-a to line start, C-k kills to end of
\* line or joins the next line, C-c discards the input; with vi key bindings
\* it has a NORMAL mode that eats keys until "i"), a vim-style modal editor (NORMAL mode eats literal
\* text; in INSERT mode C-k opens a two-key digraph prompt), and a raw-mode
\* application that shows no input at all.  A readline pane may carry a status
\* line whose content cycles with a period (a spinner or clock).
OutputText == <<111, NL>>
PromptText == <<36, SP>>
ContPrefix == <<SP, SP>>
RawScreen == <<111, NL, 35>>

\* Insert text at the cursor of a line editor; a newline byte opens a new line.
RECURSIVE InsertText(_, _)
InsertText(p, text) ==
    IF text = <<>> THEN p
    ELSE LET line == p.lines[p.row]
             c == Head(text)
             q == IF c = NL
                  THEN [p EXCEPT !.lines = SubSeq(p.lines, 1, p.row - 1)
                                           \o <<Take(line, p.col), Drop(line, p.col)>>
                                           \o SubSeq(p.lines, p.row + 1, Len(p.lines)),
                                 !.row = p.row + 1,
                                 !.col = 0]
                  ELSE [p EXCEPT !.lines[p.row] = Take(line, p.col) \o <<c>> \o Drop(line, p.col),
                                 !.col = p.col + 1]
         IN InsertText(q, Tail(text))

\* Kill to end of line; at the end of a line, join the following line.
KillLine(p) ==
    LET line == p.lines[p.row] IN
    IF p.col < Len(line) THEN [p EXCEPT !.lines[p.row] = Take(line, p.col)]
    ELSE IF p.row < Len(p.lines)
    THEN [p EXCEPT !.lines = SubSeq(p.lines, 1, p.row - 1)
                             \o <<line \o p.lines[p.row + 1]>>
                             \o SubSeq(p.lines, p.row + 2, Len(p.lines))]
    ELSE p

Submit(p) ==
    [p EXCEPT !.submitted = Append(p.submitted, JoinLines(p.lines)),
              !.lines = << <<>> >>, !.row = 1, !.col = 0]

\* Effect of a raw key token on the pane.
PaneRaw(p, key) ==
    CASE p.kind = "readline" ->
            ( IF key = "C-c" THEN [p EXCEPT !.lines = << <<>> >>, !.row = 1, !.col = 0]
              ELSE IF p.mode = "normal"
              THEN (IF key = "i" THEN [p EXCEPT !.mode = "insert"] ELSE p)
              ELSE CASE key = "C-a" -> [p EXCEPT !.col = 0]
                     [] key = "C-k" -> KillLine(p)
                     [] key = " " -> InsertText(p, <<SP>>)
                     [] key = "Enter" -> Submit(p)
                     [] key = "i" -> InsertText(p, <<105>>)
                     [] key = "Escape" -> [p EXCEPT !.mode = "normal"]
                     [] OTHER -> p )
      [] p.kind = "vim" ->
            ( IF p.mode = "normal"
              THEN (IF key = "i" THEN [p EXCEPT !.mode = "insert"] ELSE p)
              ELSE IF key = "Escape" THEN [p EXCEPT !.mode = "normal", !.dg = 0]
              ELSE IF p.dg = 1 THEN [p EXCEPT !.dg = 2]
              ELSE IF p.dg = 2 THEN [p EXCEPT !.dg = 0]
              ELSE CASE key = "C-k" -> [p EXCEPT !.dg = 1]
                     [] key = "Enter" -> Submit(p)
                     [] key = "i" -> InsertText(p, <<105>>)
                     [] OTHER -> p )
      [] p.kind = "inert" ->
            ( CASE key = "Enter" -> Submit(p)
                [] key = "i" -> InsertText(p, <<105>>)
                [] OTHER -> p )
      [] OTHER -> p

\* Effect of literal text on the pane.
PaneLiteral(p, text) ==
    CASE p.kind = "readline" -> (IF p.mode = "normal" THEN p ELSE InsertText(p, text))
      [] p.kind = "vim" ->
            ( IF p.mode = "normal" THEN p
              ELSE LET eaten == IF p.dg = 1 THEN 2 ELSE IF p.dg = 2 THEN 1 ELSE 0
                   IN InsertText([p EXCEPT !.dg = 0], Drop(text, Min(eaten, Len(text)))) )
      [] p.kind = "inert" -> InsertText(p, text)
      [] OTHER -> p

\* The input field as displayed: prompt, then continuation-prefixed lines.
RECURSIVE ContLines(_)
ContLines(ls) ==
    IF ls = <<>> THEN <<>>
    ELSE <<NL>> \o ContPrefix \o Head(ls) \o ContLines(Tail(ls))

\* The whole screen of the pane, as text.
PaneText(p) ==
    CASE p.kind = "raw" -> RawScreen
      [] p.kind = "vim" ->
            OutputText \o PromptText \o p.lines[1] \o ContLines(Tail(p.lines))
            \o (IF p.dg = 1 THEN <<63>> ELSE IF p.dg = 2 THEN <<94>> ELSE <<>>)
      [] OTHER ->
            OutputText \o PromptText \o p.lines[1] \o ContLines(Tail(p.lines))
            \o (IF p.period > 1 THEN <<NL, 48 + p.tick>> ELSE <<>>)

\* The input field's content (what Enter would submit).
InputOf(p) == JoinLines(p.lines)

\* ------------------------------------------------------------ pane driver
\* tmux capture-pane: the last n logical lines.
CapturePane(p, n) == JoinLines(LastN(SplitLines(PaneText(p)), n))

RECURSIVE StripEach(_)
StripEach(ls) ==
    IF ls = <<>> THEN <<>> ELSE <<TrimRight(Head(ls), {SP})>> \o StripEach(Tail(ls))

\* Joined capture with trailing spaces stripped per line; n = 0 means all.
CapturePaneAll(p, n) ==
    LET ls == StripEach(SplitLines(PaneText(p)))
    IN JoinLines(IF n > 0 THEN LastN(ls, n) ELSE ls)

\* ------------------------------------------------------------- Myers diff
\* A Diff is [op, data] with op one of "equal", "delete", "insert".
DiffOf(op, data) == [op |-> op, data |-> data]

\* commonPrefixLen
RECURSIVE commonPrefixLen(_, _)
commonPrefixLen(a, b) ==
    IF a # <<>> /\ b # <<>> /\ Head(a) = Head(b)
    THEN 1 + commonPrefixLen(Tail(a), Tail(b))
    ELSE 0

\* commonSuffixLen
RECURSIVE commonSuffixLen(_, _)
commonSuffixLen(a, b) ==
    IF a # <<>> /\ b # <<>> /\ a[Len(a)] = b[Len(b)]
    THEN 1 + commonSuffixLen(Take(a, Len(a) - 1), Take(b, Len(b) - 1))
    ELSE 0

\* mergeOps: merge consecutive operations of the same type.
\* Faulty variant: operations are copied without being merged.
MergeFrom_NoMerge(ops, current, result) == Append(result, current) \o ops

RECURSIVE MergeFrom(_, _, _)
MergeFrom(ops, current, result) ==
    IF ops = <<>> THEN Append(result, current)
    ELSE IF Head(ops).op = current.op
    THEN MergeFrom(Tail(ops), DiffOf(current.op, current.data \o Head(ops).data), result)
    ELSE MergeFrom(Tail(ops), Head(ops), Append(result, current))

\* Faulty variant: the final "result = append(result, current)" is missing.
mergeOps_DropsLast(ops) ==
    IF ops = <<>> THEN <<>>
    ELSE LET r == MergeFrom(Tail(ops), Head(ops), <<>>) IN Take(r, Len(r) - 1)

mergeOps(ops) ==
    IF ops = <<>> THEN <<>> ELSE MergeFrom(Tail(ops), Head(ops), <<>>)

\* Faulty variant: the ops are left in backtracking order.
Reverse_Skipped(s) == s

Reverse(s) == [i \in 1..Len(s) |-> s[Len(s) + 1 - i]]

\* The choice made in both the forward pass and backtrack: TRUE when diagonal
\* k is reached by moving down from k+1 (an insert).  v maps diagonals to x.
CameFromInsert(v, k, d) == k = -d \/ (k # d /\ v[k - 1] < v[k + 1])

\* backtrack: the diagonal run of one step, emitted in reverse.
RECURSIVE BackDiagonal(_, _, _, _, _, _)
BackDiagonal(a, x, y, prevX, prevY, ops) ==
    IF x > prevX /\ y > prevY
    THEN BackDiagonal(a, x - 1, y - 1, prevX, prevY, Append(ops, DiffOf("equal", <<a[x]>>)))
    ELSE <<x, y, ops>>

\* backtrack: what is left at d = 0 (matches, then deletes, then inserts).
RECURSIVE BackRest(_, _, _, _, _)
BackRest(a, b, x, y, ops) ==
    IF x > 0 /\ y > 0 THEN BackRest(a, b, x - 1, y - 1, Append(ops, DiffOf("equal", <<a[x]>>)))
    ELSE IF x > 0 THEN BackRest(a, b, x - 1, y, Append(ops, DiffOf("delete", <<a[x]>>)))
    ELSE IF y > 0 THEN BackRest(a, b, x, y - 1, Append(ops, DiffOf("insert", <<b[y]>>)))
    ELSE ops

\* backtrack: the loop over d, from the end point back to the origin.
RECURSIVE BackLoop(_, _, _, _, _, _, _)
BackLoop(trace, a, b, d, x, y, ops) ==
    IF d > 0
    THEN LET v == trace[d + 1]
             k == x - y
             prevK == IF CameFromInsert(v, k, d) THEN k + 1 ELSE k - 1
             prevX == v[prevK]
             prevY == prevX - prevK
             diag == BackDiagonal(a, x, y, prevX, prevY, ops)
             x1 == diag[1]
             y1 == diag[2]
         IN IF k = prevK + 1
            THEN BackLoop(trace, a, b, d - 1, x1 - 1, y1,
                          Append(diag[3], DiffOf("delete", <<a[x1]>>)))
            ELSE BackLoop(trace, a, b, d - 1, x1, y1 - 1,
                          Append(diag[3], DiffOf("insert", <<b[y1]>>)))
    ELSE BackRest(a, b, x, y, ops)

backtrack(trace, a, b, d) ==
    mergeOps(Reverse(BackLoop(trace, a, b, d, Len(a), Len(b), <<>>)))

\* Faulty variant: matching bytes are never followed.
Snake_None(a, b, x, y) == x

\* computeMyersDiff: follow the diagonal while bytes match.
RECURSIVE Snake(_, _, _, _)
Snake(a, b, x, y) ==
    IF x < Len(a) /\ y < Len(b) /\ a[x + 1] = b[y + 1] THEN Snake(a, b, x + 1, y + 1) ELSE x

\* computeMyersDiff: the diagonals whose entry of v one step of the k loop
\* reads or writes (the array index is the diagonal plus max).
KIndices(k, d) ==
    (IF k = -d THEN {k + 1} ELSE IF k = d THEN {k - 1} ELSE {k - 1, k + 1}) \cup {k}

\* computeMyersDiff: the loop over k (from -d to d in steps of 2) of one d.
\* Returns v as the loop leaves it, whether the end point was reached, and
\* the diagonals whose entry of v was used.
RECURSIVE KLoop(_, _, _, _, _)
KLoop(a, b, v, d, k) ==
    IF k > d THEN [v |-> v, found |-> FALSE, used |-> {}]
    ELSE LET x0 == IF CameFromInsert(v, k, d) THEN v[k + 1] ELSE v[k - 1] + 1
             x == Snake(a, b, x0, x0 - k)
             y == x - k
             v1 == [v EXCEPT ![k] = x]
         IN IF x >= Len(a) /\ y >= Len(b)
            THEN [v |-> v1, found |-> TRUE, used |-> KIndices(k, d)]
            ELSE LET r == KLoop(a, b, v1, d, k + 2)
                 IN [r EXCEPT !.used = r.used \cup KIndices(k, d)]

\* Faulty variant: the search stops one d short.
SearchContinues_Short(d, max) == d < max

\* computeMyersDiff: the condition of the loop over d.
SearchContinues(d, max) == d <= max

\* computeMyersDiff: the loop over d; trace holds the copy of v made at the
\* start of every d so far.  Returns whether the end point was reached, the
\* d it was reached at, the trace, and the diagonals whose entry was used.
RECURSIVE ForwardLoop(_, _, _, _, _)
ForwardLoop(a, b, v, trace, d) ==
    IF ~SearchContinues(d, Len(a) + Len(b))
    THEN [found |-> FALSE, d |-> d, trace |-> trace, used |-> {}]
    ELSE LET r == KLoop(a, b, v, d, -d)
         IN IF r.found THEN [found |-> TRUE, d |-> d, trace |-> trace, used |-> r.used]
            ELSE LET s == ForwardLoop(a, b, r.v, Append(trace, r.v), d + 1)
                 IN [s EXCEPT !.used = s.used \cup r.used]

\* computeMyersDiff: the search, then backtrack, or nil when the search ends
\* without reaching the end point.
computeMyersDiff(a, b) ==
    LET max == Len(a) + Len(b)
        v == [k \in (-max)..max |-> 0]
        s == ForwardLoop(a, b, v, <<v>>, 0)
    IN IF s.found THEN backtrack(s.trace, a, b, s.d) ELSE <<>>

\* MyersDiff: trivial cases, common prefix and suffix, then the core.
MyersDiff(a0, b0) ==
    IF a0 = <<>> /\ b0 = <<>> THEN <<>>
    ELSE IF a0 = <<>> THEN <<DiffOf("insert", b0)>>
    ELSE IF b0 = <<>> THEN <<DiffOf("delete", a0)>>
    ELSE IF a0 = b0 THEN <<DiffOf("equal", a0)>>
    ELSE LET prefixLen == commonPrefixLen(a0, b0)
             prefix == Take(a0, prefixLen)
             a1 == Drop(a0, prefixLen)
             b1 == Drop(b0, prefixLen)
             suffixLen == commonSuffixLen(a1, b1)
             suffix == Drop(a1, Len(a1) - suffixLen)
             a == Take(a1, Len(a1) - suffixLen)
             b == Take(b1, Len(b1) - suffixLen)
             middle == IF a = <<>> /\ b = <<>> THEN <<>>
                       ELSE IF a = <<>> THEN <<DiffOf("insert", b)>>
                       ELSE IF b = <<>> THEN <<DiffOf("delete", a)>>
                       ELSE computeMyersDiff(a, b)
         IN (IF prefix # <<>> THEN <<DiffOf("equal", prefix)>> ELSE <<>>)
            \o middle
            \o (IF suffix # <<>> THEN <<DiffOf("equal", suffix)>> ELSE <<>>)

\* The smallest Equal run the byte-level diff treats as a boundary.
minEqualToBreakHunk == 4

\* GroupHunks: a Hunk is [deleted, inserted]; every Equal ends the open hunk.
RECURSIVE GroupFrom(_, _, _, _)
GroupFrom(diffs, current, inHunk, hunks) ==
    IF diffs = <<>> THEN (IF inHunk THEN Append(hunks, current) ELSE hunks)
    ELSE LET d == Head(diffs) IN
         CASE d.op = "equal" ->
                IF inHunk
                THEN GroupFrom(Tail(diffs), [deleted |-> <<>>, inserted |-> <<>>], FALSE,
                               Append(hunks, current))
                ELSE GroupFrom(Tail(diffs), current, inHunk, hunks)
           [] d.op = "delete" ->
                GroupFrom(Tail(diffs), [current EXCEPT !.deleted = @ \o d.data], TRUE, hunks)
           [] OTHER ->
                GroupFrom(Tail(diffs), [current EXCEPT !.inserted = @ \o d.data], TRUE, hunks)

\* Faulty variant: an Equal never ends the open hunk.
GroupHunks_NeverBreaks(diffs) ==
    LET dels == SelectSeq(diffs, LAMBDA d : d.op = "delete")
        inss == SelectSeq(diffs, LAMBDA d : d.op = "insert")
        Cat[i \in 0..Len(diffs)] ==
            IF i = 0 THEN [deleted |-> <<>>, inserted |-> <<>>]
            ELSE CASE diffs[i].op = "delete" -> [Cat[i - 1] EXCEPT !.deleted = @ \o diffs[i].data]
                   [] diffs[i].op = "insert" -> [Cat[i - 1] EXCEPT !.inserted = @ \o diffs[i].data]
                   [] OTHER -> Cat[i - 1]
    IN IF dels = <<>> /\ inss = <<>> THEN <<>> ELSE <<Cat[Len(diffs)]>>

GroupHunks(diffs) == GroupFrom(diffs, [deleted |-> <<>>, inserted |-> <<>>], FALSE, <<>>)

\* ------------------------------------------------------- input extraction
\* A UTF-8 continuation byte: c & 0xC0 == 0x80.
IsContByte(c) == c >= 128 /\ c <= 191

\* commonStringPrefix: first loop walking back over continuation bytes.
RECURSIVE WalkBack(_, _)
WalkBack(a, end) ==
    IF end > 0 /\ end < Len(a) /\ IsContByte(a[end]) THEN WalkBack(a, end - 1) ELSE end

\* commonStringPrefix: start (0-based) of the rune that holds byte r.
RECURSIVE RuneStart(_, _)
RuneStart(a, r) ==
    IF r > 0 /\ IsContByte(a[r + 1]) THEN RuneStart(a, r - 1) ELSE r

\* Faulty variant: every leading byte is taken for a whole rune.
RuneLen_One(lead) == 1

RuneLen(lead) ==
    IF lead < 128 THEN 1
    ELSE IF lead >= 192 /\ lead <= 223 THEN 2
    ELSE IF lead >= 224 /\ lead <= 239 THEN 3
    ELSE IF lead >= 240 /\ lead <= 247 THEN 4
    ELSE 1

commonStringPrefix(a, b) ==
    LET end0 == commonPrefixLen(a, b)
        end1 == WalkBack(a, end0)
        end2 == IF end1 > 0 /\ a[end1] >= 128
                THEN LET r == RuneStart(a, end1 - 1)
                     IN IF r + RuneLen(a[r + 1]) > end1 THEN r ELSE end1
                ELSE end1
    IN Take(a, end2)

\* Faulty variant: the dash is whitelisted too.
NonContentBytes_WithDash == {SP, TAB, 46, 62, 124, 58, 45}

NonContentBytes == {SP, TAB, 46, 62, 124, 58}

\* trimToNonContent: the leading run of whitelisted bytes.
RECURSIVE trimToNonContent(_)
trimToNonContent(prefix) ==
    IF prefix # <<>> /\ Head(prefix) \in NonContentBytes
    THEN <<Head(prefix)>> \o trimToNonContent(Tail(prefix))
    ELSE <<>>

\* Faulty variant: only the first two continuation lines are compared.
FoldPrefix_FirstPair(prefix, ls) ==
    IF ls = <<>> THEN prefix ELSE commonStringPrefix(prefix, Head(ls))

RECURSIVE FoldPrefix(_, _)
FoldPrefix(prefix, ls) ==
    IF ls = <<>> THEN prefix
    ELSE FoldPrefix(commonStringPrefix(prefix, Head(ls)), Tail(ls))

\* Faulty variant: line 0 is taken for a continuation line.
detectContinuationPrefix_WithLine0(deleted) ==
    LET lines == SplitLines(deleted) IN
    IF Len(lines) < 2 THEN <<>>
    ELSE LET contLines == SelectSeq(lines, LAMBDA l : Len(l) > 0) IN
         IF Len(contLines) >= 2
         THEN trimToNonContent(FoldPrefix(contLines[1], Tail(contLines)))
         ELSE IF Len(contLines) = 1
         THEN LET line == contLines[1]
                  trimmed == TrimLeft(line, {SP, TAB})
              IN Take(line, Len(line) - Len(trimmed))
         ELSE <<>>

\* Faulty variant: a single continuation line is cut at the whitelist too.
detectContinuationPrefix_SingleTrimmed(deleted) ==
    LET lines == SplitLines(deleted) IN
    IF Len(lines) < 2 THEN <<>>
    ELSE LET contLines == SelectSeq(Tail(lines), LAMBDA l : Len(l) > 0) IN
         IF Len(contLines) >= 2
         THEN trimToNonContent(FoldPrefix(contLines[1], Tail(contLines)))
         ELSE IF Len(contLines) = 1
         THEN trimToNonContent(contLines[1])
         ELSE <<>>

detectContinuationPrefix(deleted) ==
    LET lines == SplitLines(deleted) IN
    IF Len(lines) < 2 THEN <<>>
    ELSE LET contLines == SelectSeq(Tail(lines), LAMBDA l : Len(l) > 0) IN
         IF Len(contLines) >= 2
         THEN trimToNonContent(FoldPrefix(contLines[1], Tail(contLines)))
         ELSE IF Len(contLines) = 1
         THEN LET line == contLines[1]
                  trimmed == TrimLeft(line, {SP, TAB})
              IN Take(line, Len(line) - Len(trimmed))
         ELSE <<>>

\* lastNLines: scan back for the n-th newline.
RECURSIVE LastNFrom(_, _, _, _)
LastNFrom(s, n, i, count) ==
    IF i < 1 THEN s
    ELSE IF s[i] = NL
    THEN (IF count + 1 = n THEN Drop(s, i) ELSE LastNFrom(s, n, i - 1, count + 1))
    ELSE LastNFrom(s, n, i - 1, count)

lastNLines(s, n) == IF n <= 0 THEN s ELSE LastNFrom(s, n, Len(s), 0)

\* extractOriginalInput: candidates are [deleted, inserted, contPrefix].
RECURSIVE Candidates(_)
Candidates(hunks) ==
    IF hunks = <<>> THEN <<>>
    ELSE LET h == Head(hunks) IN
         (IF Len(h.deleted) = 0 THEN <<>>
          ELSE << [deleted |-> h.deleted, inserted |-> h.inserted,
                   contPrefix |-> detectContinuationPrefix(h.deleted)] >>)
         \o Candidates(Tail(hunks))

\* Faulty variant: the scan runs forward and stops at the first such candidate.
LastWithPrefix_Forward(cands, i) ==
    LET withPrefix == { j \in 1..i : cands[j].contPrefix # <<>> }
    IN IF withPrefix = {} THEN 0
       ELSE CHOOSE j \in withPrefix : \A k \in withPrefix : j <= k

\* Index of the last candidate with a continuation prefix, or 0.
RECURSIVE LastWithPrefix(_, _)
LastWithPrefix(cands, i) ==
    IF i < 1 THEN 0
    ELSE IF cands[i].contPrefix # <<>> THEN i
    ELSE LastWithPrefix(cands, i - 1)

\* Index of the first candidate with the smallest Inserted.
RECURSIVE SmallestInserted(_, _, _)
SmallestInserted(cands, i, bestIdx) ==
    IF i > Len(cands) THEN bestIdx
    ELSE IF Len(cands[i].inserted) < Len(cands[bestIdx].inserted)
    THEN SmallestInserted(cands, i + 1, i)
    ELSE SmallestInserted(cands, i + 1, bestIdx)

\* Faulty variant: the result is trimmed of surrounding white space.
StripPrefix_TrimSpace(sel) ==
    LET lines == SplitLines(sel.deleted)
        cleaned == [j \in 1..Len(lines) |->
                      IF j > 1 /\ sel.contPrefix # <<>> /\ HasPrefix(lines[j], sel.contPrefix)
                      THEN Drop(lines[j], Len(sel.contPrefix))
                      ELSE lines[j]]
    IN TrimLeft(TrimRight(JoinLines(cleaned), {NL, SP, TAB}), {NL, SP, TAB})

\* Faulty variant: the prefix is stripped from line 0 as well.
StripPrefix_Line0(sel) ==
    LET lines == SplitLines(sel.deleted)
        cleaned == [j \in 1..Len(lines) |->
                      IF sel.contPrefix # <<>> /\ HasPrefix(lines[j], sel.contPrefix)
                      THEN Drop(lines[j], Len(sel.contPrefix))
                      ELSE lines[j]]
    IN TrimRight(JoinLines(cleaned), {NL})

\* Strip the continuation prefix from lines 1.. of the selected hunk.
StripPrefix(sel) ==
    LET lines == SplitLines(sel.deleted)
        cleaned == [j \in 1..Len(lines) |->
                      IF j > 1 /\ sel.contPrefix # <<>> /\ HasPrefix(lines[j], sel.contPrefix)
                      THEN Drop(lines[j], Len(sel.contPrefix))
                      ELSE lines[j]]
    IN TrimRight(JoinLines(cleaned), {NL})

\* extractOriginalInput: both captures trimmed, diffed and grouped, and the
\* hunks with deleted content collected as candidates.
ExtractCandidates(originalCapture, clearedCapture, captureN) ==
    LET trimLines == captureN + nudgeDiffMarginLines
        orig == IF captureN > 0 THEN lastNLines(originalCapture, trimLines) ELSE originalCapture
        clrd == IF captureN > 0 THEN lastNLines(clearedCapture, trimLines) ELSE clearedCapture
    IN Candidates(GroupHunks(MyersDiff(orig, clrd)))

\* extractOriginalInput: the index of "selected" among the candidates.
SelectCandidate(cands) ==
    LET w == LastWithPrefix(cands, Len(cands)) IN
    IF w > 0 THEN w ELSE SmallestInserted(cands, 2, 1)

extractOriginalInput(originalCapture, clearedCapture, captureN) ==
    LET cands == ExtractCandidates(originalCapture, clearedCapture, captureN)
    IN IF Len(cands) = 0 THEN <<>>
       ELSE LET sel == cands[SelectCandidate(cands)] IN
            IF LastWithPrefix(cands, Len(cands)) > 0 THEN StripPrefix(sel)
            ELSE IF Len(sel.inserted) >= Len(sel.deleted) THEN <<>>
            ELSE StripPrefix(sel)

\* ---------------------------------------------------------------- state
VARIABLES
    pane,             \* the terminal pane (environment)
    message,          \* nudgeWithProtocol's message argument
    pc,               \* position in nudgeWithProtocol / clearInput / convergenceClear
    err,              \* nudgeWithProtocol's return value once pc = "done" (wrap chain)
    trace,            \* every pane-driver call, sleep and makeSentinel call, in order
    faults,           \* pane-driver calls that have failed so far
    originalCapture,  \* clearInput: originalCapture
    sentinel,         \* clearInput: sentinel
    attempt,          \* clearInput: 1 on the first sentinel probe, 2 on the vim retry
    captureN,         \* clearInput: captureN
    clearErr,         \* clearInput's returned error (Pending until it returns)
    prev,             \* convergenceClear: prev
    recent,           \* convergenceClear: detector.recent
    iter,             \* convergenceClear: i
    originalInput,    \* nudgeWithProtocol: originalInput
    before,           \* MyersDiff: a (the source bytes)
    after,            \* MyersDiff: b (the target bytes)
    diffOut,          \* the []Diff returned by MyersDiff (or handed to GroupHunks)
    hunkOut,          \* the []Hunk returned by GroupHunks
    winN,             \* extractOriginalInput: captureN argument
    candsOut,         \* extractOriginalInput: candidates
    selIdx,           \* extractOriginalInput: index of "selected" in candidates (0: none)
    extracted,        \* the string returned by extractOriginalInput
    typed,            \* the input text the original capture was built around
    scenario,         \* how the pair of captures (or strings) was built
    strOut,           \* the string returned by a prefix helper
    fstep,            \* which of the functions have been applied
    other,            \* the locals and pane of a second, concurrent delivery
    turn              \* which of the two deliveries is running (1 or 2)

vars == <<pane, message, pc, err, trace, faults, originalCapture, sentinel, attempt,
          captureN, clearErr, prev, recent, iter, originalInput,
          before, after, diffOut, hunkOut, winN, candsOut, selIdx, extracted, typed,
          scenario, strOut, fstep, other, turn>>

concVars == <<other, turn>>

\* What a step of the function harness leaves alone, and what a step of a
\* delivery leaves alone.
nudgeVars == <<pane, message, pc, err, trace, faults, originalCapture, sentinel, attempt,
               captureN, clearErr, prev, recent, iter, originalInput, concVars>>
funcVars == <<before, after, diffOut, hunkOut, winN, candsOut, selIdx, extracted, typed,
              scenario, strOut, fstep, concVars>>
inputVars == <<before, after, typed, scenario>>
extractVars == <<winN, candsOut, selIdx, extracted>>

clearVars == <<originalCapture, sentinel, attempt, captureN>>
convVars == <<prev, recent, iter>>

\* Errors are wrap chains, outermost first; the empty chain is nil.
NoErr == <<>>
Pending == <<"pending">>
ErrPaneBlocked == <<"ErrPaneBlocked">>
ErrPasteDetected == <<"ErrPasteDetected">>
ErrClearStalled == <<"ErrClearStalled">>
ErrSentinelNotFound == <<"sentinel not found after vim mode retry">>
ErrIterations == <<"convergence clear exceeded iterations">>
\* fmt.Errorf("<what>: %w", err) around a pane-driver error
DriverErr(what) == <<what, "driver error">>

\* Trace events.
Ev(op, key, text, n, ok) == [op |-> op, key |-> key, text |-> text, n |-> n, ok |-> ok]
EvBlocked(inMode, ok) == Ev("is_blocked", inMode, <<>>, 0, ok)
EvCapture(n, out, ok) == Ev("capture", "", out, n, ok)
EvCaptureAll(n, out, ok) == Ev("capture_all", "", out, n, ok)
EvRaw(key, ok) == Ev("raw", key, <<>>, 0, ok)
EvLiteral(text, ok) == Ev("literal", "", text, 0, ok)
EvSleep(ms) == Ev("sleep", "", <<>>, ms, TRUE)
EvWake == Ev("wake", "", <<>>, 0, TRUE)
EvMakeSentinel(s) == Ev("makeSentinel", "", s, 0, TRUE)

\* A pane-driver call may fail, up to MaxFaults times in a delivery.
Fault(ok) ==
    /\ ok \/ faults < MaxFaults
    /\ faults' = IF ok THEN faults ELSE faults + 1

\* ------------------------------------------------------------------- Init
Alphabet == {97}

LinesOfLen(n) == [1..n -> Alphabet]
InputLine == UNION { LinesOfLen(n) : n \in 0..MaxLineLen }
InputBuffers == UNION { [1..k -> InputLine] : k \in 1..MaxInputLines }

\* Readline panes: any input, cursor anywhere in it, no status line.
ReadlinePanes ==
    { [kind |-> "readline", blocked |-> bl, lines |-> ls, row |-> r, col |-> c,
       period |-> 1, tick |-> 0, mode |-> "insert", dg |-> 0, submitted |-> <<>>] :
      bl \in BOOLEAN, ls \in InputBuffers, r \in 1..MaxInputLines, c \in 0..MaxLineLen }

\* A readline pane showing a large-paste placeholder in its input field.
PastePanes ==
    { [kind |-> "readline", blocked |-> bl, lines |-> <<PastePlaceholder>>, row |-> 1,
       col |-> Len(PastePlaceholder), period |-> 1, tick |-> 0, mode |-> "insert",
       dg |-> 0, submitted |-> <<>>] : bl \in BOOLEAN }

\* Readline panes with an empty input and a status line that cycles through
\* 2, 3, 8 or 9 contents (8 is the depth of the cycle detector's history).
TickerPanes ==
    { [kind |-> "readline", blocked |-> FALSE, lines |-> << <<>> >>, row |-> 1, col |-> 0,
       period |-> pd, tick |-> 0, mode |-> "insert", dg |-> 0, submitted |-> <<>>] :
      pd \in {2, 3, 8, 9} }

\* Panes of an application that echoes text and has no line-editing keys,
\* with an empty input and a status line that cycles through 2 to 10 contents.
InertPanes ==
    { [kind |-> "inert", blocked |-> FALSE, lines |-> << <<>> >>, row |-> 1, col |-> 0,
       period |-> pd, tick |-> 0, mode |-> "insert", dg |-> 0, submitted |-> <<>>] :
      pd \in 2..10 }

\* A vim-style pane in NORMAL or INSERT mode, a line editor in vi NORMAL mode,
\* and a raw-mode pane.
ModalPanes ==
    { [kind |-> kd, blocked |-> FALSE, lines |-> << ln >>, row |-> 1, col |-> Len(ln),
       period |-> 1, tick |-> 0, mode |-> md, dg |-> 0, submitted |-> <<>>] :
      kd \in {"vim", "raw", "readline"}, md \in {"normal", "insert"}, ln \in InputLine }

\* Readline panes with an input of six lines and the cursor at the start of
\* line 1 or 3; one of the lines may hold a sentinel an earlier delivery
\* left behind.
TallPanes ==
    LET Stale == SectionSign \o <<65, 66, 67, 68>> \o SectionSign
        Lines(at) == [i \in 1..6 |-> IF i = at THEN Stale ELSE <<97>>]
    IN { [kind |-> "readline", blocked |-> FALSE, lines |-> Lines(at), row |-> r, col |-> 0,
          period |-> 1, tick |-> 0, mode |-> "insert", dg |-> 0, submitted |-> <<>>] :
         at \in {0, 2, 5}, r \in {1, 3} }

Panes ==
    { p \in ReadlinePanes : p.row <= Len(p.lines) /\ p.col <= Len(p.lines[p.row]) }
    \cup PastePanes \cup TickerPanes \cup TallPanes \cup InertPanes
    \cup { p \in ModalPanes : p.kind \in {"raw", "readline"} => p.mode = "normal" }

Messages == { <<78>>, <<78, 79>> }

Init ==
    /\ pane \in Panes
    /\ message \in Messages
    /\ pc = "check_blocked"
    /\ err = NoErr
    /\ trace = <<>>
    /\ faults = 0
    /\ originalCapture = <<>>
    /\ sentinel = <<>>
    /\ attempt = 1
    /\ captureN = 0
    /\ clearErr = Pending
    /\ prev = <<>>
    /\ recent = <<>>
    /\ iter = 0
    /\ originalInput = <<>>
    /\ other = <<>>
    /\ turn = 1
    /\ before = <<>>
    /\ after = <<>>
    /\ diffOut = <<>>
    /\ hunkOut = <<>>
    /\ winN = 0
    /\ candsOut = <<>>
    /\ selIdx = 0
    /\ extracted = <<>>
    /\ typed = <<>>
    /\ scenario = "nudge"
    /\ strOut = <<>>
    /\ fstep = "idle"

\* ----------------------------------------------------- nudgeWithProtocol
\* Faulty variant: the blocking mode is never reported.
InCopyMode_Never(ok, inMode) == FALSE

\* IsPaneInCopyMode: err == nil && inMode == "1"
InCopyMode(ok, inMode) == ok /\ inMode = "1"

\* detectPastePlaceholder: false on a capture error, else the regex match
PlaceholderSeen(ok, content) == ok /\ MatchString(content)

\* Faulty variant: clearInput's error is dropped and the delivery goes on.
NudgeAfterClear_IgnoresErr(e) == [pc |-> "capture_cleared", err |-> NoErr]

\* nudgeWithProtocol's handling of clearInput's error: wrap and return, or go on.
NudgeAfterClear(e) ==
    IF e # NoErr THEN [pc |-> "done", err |-> <<"nudge">> \o e]
    ELSE [pc |-> "capture_cleared", err |-> NoErr]

\* Position after the blocked check.
AfterBlockedCheck(inMode) == IF inMode THEN "done" ELSE "check_paste"

\* Position after the paste check.
AfterPasteCheck(seen) == IF seen THEN "done" ELSE "capture_original"

\* Pre-check 1: copy mode or another blocking mode.
CheckBlocked ==
    /\ pc = "check_blocked"
    /\ \E ok \in BOOLEAN :
        /\ Fault(ok)
        /\ LET out == IF pane.blocked THEN "1" ELSE "0"
               inMode == InCopyMode(ok, out)
           IN
           /\ trace' = Append(trace, EvBlocked(IF ok THEN out ELSE "", ok))
           /\ pc' = AfterBlockedCheck(inMode)
           /\ err' = IF inMode THEN ErrPaneBlocked ELSE NoErr
    /\ UNCHANGED <<clearErr, pane, message, clearVars, convVars, originalInput>>
    /\ UNCHANGED funcVars

\* Pre-check 2: paste placeholder in the last 50 lines.
CheckPaste ==
    /\ pc = "check_paste"
    /\ \E ok \in BOOLEAN :
        /\ Fault(ok)
        /\ LET content == CapturePane(pane, nudgePastePlaceholderLines)
               seen == PlaceholderSeen(ok, content)
           IN /\ trace' = Append(trace, EvCapture(nudgePastePlaceholderLines,
                                                  IF ok THEN content ELSE <<>>, ok))
              /\ pc' = AfterPasteCheck(seen)
              /\ err' = IF seen THEN ErrPasteDetected ELSE NoErr
    /\ UNCHANGED <<clearErr, pane, message, clearVars, convVars, originalInput>>
    /\ UNCHANGED funcVars

\* -------------------------------------------------------------- clearInput
\* clearInput returns e: the caller sees it, wraps it and returns, or goes on.
ClearReturns(e) ==
    /\ clearErr' = e
    /\ pc' = NudgeAfterClear(e).pc
    /\ err' = NudgeAfterClear(e).err

\* clearInput goes on to its next position.
ClearGoes(next) ==
    /\ pc' = next
    /\ err' = NoErr
    /\ UNCHANGED clearErr

\* Faulty variant: no wait after the sentinel.
SentinelDelay_Skipped == <<>>

\* The delay between the sentinel (or Escape, or i) and what follows.
SentinelDelay == <<EvSleep(nudgeSentinelDelayMs)>>

\* Full capture of the untouched pane, then makeSentinel.
CaptureOriginal ==
    /\ pc = "capture_original"
    /\ \E ok \in BOOLEAN, s \in Sentinels :
        /\ Fault(ok)
        /\ IF ok
           THEN /\ originalCapture' = CapturePaneAll(pane, 0)
                /\ sentinel' = s
                /\ trace' = trace \o <<EvCaptureAll(0, originalCapture', TRUE),
                                       EvMakeSentinel(s)>>
                /\ ClearGoes("sentinel_ca")
           ELSE /\ trace' = Append(trace, EvCaptureAll(0, <<>>, FALSE))
                /\ ClearReturns(DriverErr("capture original"))
                /\ UNCHANGED <<originalCapture, sentinel>>
    /\ UNCHANGED <<pane, message, attempt, captureN, convVars, originalInput>>
    /\ UNCHANGED funcVars

\* C-a before the sentinel (first probe and vim retry).
SentinelCa ==
    /\ pc = "sentinel_ca"
    /\ \E ok \in BOOLEAN :
        /\ Fault(ok)
        /\ trace' = Append(trace, EvRaw("C-a", ok))
        /\ IF ok
           THEN /\ pane' = PaneRaw(pane, "C-a")
                /\ ClearGoes("sentinel_literal")
           ELSE /\ ClearReturns(DriverErr(IF attempt = 1 THEN "send C-a"
                                        ELSE "send C-a (vim retry)"))
                /\ UNCHANGED pane
    /\ UNCHANGED <<message, clearVars, convVars, originalInput>>
    /\ UNCHANGED funcVars

\* The sentinel as literal text, then the sentinel delay.
SentinelLiteral ==
    /\ pc = "sentinel_literal"
    /\ \E ok \in BOOLEAN :
        /\ Fault(ok)
        /\ IF ok
           THEN /\ pane' = PaneLiteral(pane, sentinel)
                /\ trace' = trace \o <<EvLiteral(sentinel, TRUE)>> \o SentinelDelay
                /\ ClearGoes("sentinel_capture")
           ELSE /\ trace' = Append(trace, EvLiteral(sentinel, FALSE))
                /\ ClearReturns(DriverErr(IF attempt = 1 THEN "send sentinel"
                                        ELSE "send sentinel (vim retry)"))
                /\ UNCHANGED pane
    /\ UNCHANGED <<message, clearVars, convVars, originalInput>>
    /\ UNCHANGED funcVars

\* captureN = linesFromBottom + 2, at least nudgeMinCaptureN
CaptureNOf(linesFromBottom) ==
    IF linesFromBottom + 2 < nudgeMinCaptureN THEN nudgeMinCaptureN ELSE linesFromBottom + 2

\* Faulty variant: no vim retry, a missing sentinel fails at once.
AfterProbe_NoRetry(found, att) == IF found THEN "conv_initial" ELSE "done"

\* Position after a probe capture: found, not found on the first probe, not
\* found on the retry.
AfterProbe(found, att) ==
    IF found THEN "conv_initial"
    ELSE IF att = 1 THEN "retry_escape"
    ELSE "done"

\* Full capture and backward search for the sentinel.
SentinelCapture ==
    /\ pc = "sentinel_capture"
    /\ \E ok \in BOOLEAN :
        /\ Fault(ok)
        /\ IF ok
           THEN LET sentinelCapture == CapturePaneAll(pane, 0)
                    res == findSentinelFromEnd(SplitLines(sentinelCapture), sentinel)
                    next == AfterProbe(res[3], attempt)
                IN /\ trace' = Append(trace, EvCaptureAll(0, sentinelCapture, TRUE))
                   /\ captureN' = IF res[3] THEN CaptureNOf(res[2]) ELSE captureN
                   /\ IF next = "done"
                      THEN ClearReturns(ErrSentinelNotFound)
                      ELSE ClearGoes(next)
           ELSE /\ trace' = Append(trace, EvCaptureAll(0, <<>>, FALSE))
                /\ ClearReturns(DriverErr(IF attempt = 1 THEN "capture after sentinel"
                                        ELSE "capture after sentinel (vim retry)"))
                /\ UNCHANGED captureN
    /\ UNCHANGED <<pane, message, originalCapture, sentinel, attempt, convVars, originalInput>>
    /\ UNCHANGED funcVars

\* Faulty variant: the retry interrupts the application instead of leaving
\* its mode.
RetryKeys_Interrupt == <<"C-c", "i">>

\* The two key tokens of the vim retry: ensure NORMAL, enter INSERT.
RetryKeys == <<"Escape", "i">>

\* Vim retry: Escape (its error is discarded), then the delay.
RetryEscape ==
    /\ pc = "retry_escape"
    /\ \E ok \in BOOLEAN :
        /\ Fault(ok)
        /\ pane' = IF ok THEN PaneRaw(pane, RetryKeys[1]) ELSE pane
        /\ trace' = trace \o <<EvRaw(RetryKeys[1], ok)>> \o SentinelDelay
    /\ pc' = "retry_i"
    /\ UNCHANGED <<clearErr, message, err, clearVars, convVars, originalInput>>
    /\ UNCHANGED funcVars

\* Vim retry: i (its error is discarded), the delay, then a fresh sentinel.
RetryI ==
    /\ pc = "retry_i"
    /\ \E ok \in BOOLEAN, s \in Sentinels :
        /\ Fault(ok)
        /\ pane' = IF ok THEN PaneRaw(pane, RetryKeys[2]) ELSE pane
        /\ trace' = trace \o <<EvRaw(RetryKeys[2], ok)>> \o SentinelDelay \o <<EvMakeSentinel(s)>>
        /\ sentinel' = s
    /\ attempt' = 2
    /\ pc' = "sentinel_ca"
    /\ UNCHANGED <<clearErr, message, err, originalCapture, captureN, convVars, originalInput>>
    /\ UNCHANGED funcVars

\* ------------------------------------------------------- convergenceClear
\* Faulty variant: the detector never recognises a state.
Check_Never(rec, state) == FALSE

\* cycleDetector.Check: TRUE when the state is among the recent ones.
Check(rec, state) == \E j \in 1..Len(rec) : rec[j] = state

\* Faulty variant: the history is one state deeper.
Record_DepthNine(rec, state) ==
    LET r == Append(rec, state)
    IN IF Len(r) > cycleDetectorMaxLen + 1 THEN Tail(r) ELSE r

\* Faulty variant: no state is ever dropped.
Record_NoEviction(rec, state) == Append(rec, state)

\* cycleDetector.Check: record the state, dropping the oldest beyond maxLen.
Record(rec, state) ==
    LET r == Append(rec, state)
    IN IF Len(r) > cycleDetectorMaxLen THEN Tail(r) ELSE r

\* Faulty variant: any capture counts as converged.
Converged_Always(cur, prv) == TRUE

\* "cur == prev": converged.
Converged(cur, prv) == cur = prv

\* Faulty variant: the detector is asked before the convergence test.
LoopVerdict_CycleFirst(cur, prv, rec) ==
    IF Check(rec, cur) THEN "stalled"
    ELSE IF Converged(cur, prv) THEN "converged"
    ELSE "continue"

\* The two tests on a loop capture, in the loop's order: converged, then cycle.
LoopVerdict(cur, prv, rec) ==
    IF Converged(cur, prv) THEN "converged"
    ELSE IF Check(rec, cur) THEN "stalled"
    ELSE "continue"

\* Faulty variant: the loop runs one iteration too many.
LoopContinues_OffByOne(i) == i <= nudgeMaxClearIterations

\* The for-loop condition.
LoopContinues(i) == i < nudgeMaxClearIterations

\* The delay after each C-a + C-k.
ClearIterDelay == <<EvSleep(nudgeClearIterDelayMs)>>

\* convergenceClear returns e to clearInput, which returns it to nudgeWithProtocol.
ConvReturns(e) == ClearReturns(e)

\* Initial windowed capture; a new cycle detector; i = 0.
ConvInitial ==
    /\ pc = "conv_initial"
    /\ \E ok \in BOOLEAN :
        /\ Fault(ok)
        /\ IF ok
           THEN /\ prev' = CapturePane(pane, captureN)
                /\ trace' = Append(trace, EvCapture(captureN, prev', TRUE))
                /\ IF LoopContinues(0)
                   THEN ClearGoes("conv_ca")
                   ELSE ConvReturns(ErrIterations)
           ELSE /\ trace' = Append(trace, EvCapture(captureN, <<>>, FALSE))
                /\ ConvReturns(DriverErr("initial capture"))
                /\ UNCHANGED prev
    /\ recent' = <<>>
    /\ iter' = 0
    /\ UNCHANGED <<pane, message, clearVars, originalInput>>
    /\ UNCHANGED funcVars

\* Faulty variant: the loop kills to the end of the line from wherever the
\* cursor is.
ClearKeys_NoLineStart == <<"C-k", "C-k">>

\* The two key tokens of one iteration: beginning of line, kill to end of line.
ClearKeys == <<"C-a", "C-k">>

\* C-a: beginning of line.
ConvCa ==
    /\ pc = "conv_ca"
    /\ \E ok \in BOOLEAN :
        /\ Fault(ok)
        /\ trace' = Append(trace, EvRaw(ClearKeys[1], ok))
        /\ IF ok
           THEN /\ pane' = PaneRaw(pane, ClearKeys[1])
                /\ ClearGoes("conv_ck")
           ELSE /\ ConvReturns(DriverErr("send C-a"))
                /\ UNCHANGED pane
    /\ UNCHANGED <<message, clearVars, convVars, originalInput>>
    /\ UNCHANGED funcVars

\* C-k: kill to end of line; then the delay, during which a status line may tick.
ConvCk ==
    /\ pc = "conv_ck"
    /\ \E ok \in BOOLEAN, adv \in BOOLEAN :
        /\ Fault(ok)
        /\ adv => ok /\ pane.period > 1
        /\ IF ok
           THEN /\ pane' = [PaneRaw(pane, ClearKeys[2]) EXCEPT
                              !.tick = IF adv THEN (pane.tick + 1) % pane.period ELSE pane.tick]
                /\ trace' = trace \o <<EvRaw(ClearKeys[2], TRUE)>> \o ClearIterDelay
                /\ ClearGoes("conv_capture")
           ELSE /\ trace' = Append(trace, EvRaw(ClearKeys[2], FALSE))
                /\ ConvReturns(DriverErr("send C-k"))
                /\ UNCHANGED pane
    /\ UNCHANGED <<message, clearVars, convVars, originalInput>>
    /\ UNCHANGED funcVars

\* Windowed capture, compared with the previous one and the detector's history.
ConvCapture ==
    /\ pc = "conv_capture"
    /\ \E ok \in BOOLEAN :
        /\ Fault(ok)
        /\ IF ok
           THEN LET cur == CapturePane(pane, captureN) IN
                /\ trace' = Append(trace, EvCapture(captureN, cur, TRUE))
                /\ IF LoopVerdict(cur, prev, recent) = "converged"
                   THEN /\ ConvReturns(NoErr)
                        /\ UNCHANGED convVars
                   ELSE IF LoopVerdict(cur, prev, recent) = "stalled"
                   THEN /\ ConvReturns(ErrClearStalled)
                        /\ UNCHANGED convVars
                   ELSE /\ recent' = Record(recent, cur)
                        /\ prev' = cur
                        /\ iter' = iter + 1
                        /\ IF LoopContinues(iter + 1)
                           THEN ClearGoes("conv_ca")
                           ELSE ConvReturns(ErrIterations)
           ELSE /\ trace' = Append(trace, EvCapture(captureN, <<>>, FALSE))
                /\ ConvReturns(DriverErr("capture iteration"))
                /\ UNCHANGED convVars
    /\ UNCHANGED <<pane, message, clearVars, originalInput>>
    /\ UNCHANGED funcVars

\* ------------------------------------------- nudgeWithProtocol, continued
\* The delay between the message and Enter.
InjectDelay == <<EvSleep(nudgeInjectDelayMs)>>

\* The delay between Enter and the restore.
EnterDelay == <<EvSleep(nudgeEnterDelayMs)>>

\* A restore that is attempted whatever was reconstructed.
AfterEnter_Always(orig) == "restore"

\* "originalInput != \"\"": restore, or go straight to the wake.
AfterEnter(orig) == IF orig # <<>> THEN "restore" ELSE "wake"

\* Bounded capture of the cleared pane, then extractOriginalInput.
CaptureCleared ==
    /\ pc = "capture_cleared"
    /\ \E ok \in BOOLEAN :
        /\ Fault(ok)
        /\ LET diffLines == captureN + nudgeDiffMarginLines IN
           IF ok
           THEN LET clearedCapture == CapturePaneAll(pane, diffLines) IN
                /\ trace' = Append(trace, EvCaptureAll(diffLines, clearedCapture, TRUE))
                /\ originalInput' = extractOriginalInput(originalCapture, clearedCapture, captureN)
                /\ pc' = "inject"
                /\ err' = NoErr
           ELSE /\ trace' = Append(trace, EvCaptureAll(diffLines, <<>>, FALSE))
                /\ pc' = "done"
                /\ err' = <<"nudge">> \o DriverErr("capture after clear")
                /\ UNCHANGED originalInput
    /\ UNCHANGED <<clearErr, pane, message, clearVars, convVars>>
    /\ UNCHANGED funcVars

\* The nudge message as literal text, then the inject delay.
Inject ==
    /\ pc = "inject"
    /\ \E ok \in BOOLEAN :
        /\ Fault(ok)
        /\ IF ok
           THEN /\ pane' = PaneLiteral(pane, message)
                /\ trace' = trace \o <<EvLiteral(message, TRUE)>> \o InjectDelay
                /\ pc' = "enter"
                /\ err' = NoErr
           ELSE /\ trace' = Append(trace, EvLiteral(message, FALSE))
                /\ pc' = "done"
                /\ err' = <<"nudge">> \o DriverErr("inject")
                /\ UNCHANGED pane
    /\ UNCHANGED <<clearErr, message, clearVars, convVars, originalInput>>
    /\ UNCHANGED funcVars

\* Faulty variant: a failed Enter is sent again.
AfterEnterError_Retry == "enter"

\* Position after a failed Enter: the error is returned.
AfterEnterError == "done"

\* Enter.
Enter ==
    /\ pc = "enter"
    /\ \E ok \in BOOLEAN :
        /\ Fault(ok)
        /\ trace' = Append(trace, EvRaw("Enter", ok))
        /\ IF ok
           THEN /\ pane' = PaneRaw(pane, "Enter")
                /\ pc' = AfterEnter(originalInput)
                /\ err' = NoErr
           ELSE /\ pc' = AfterEnterError
                /\ err' = <<"nudge">> \o DriverErr("enter")
                /\ UNCHANGED pane
    /\ UNCHANGED <<clearErr, message, clearVars, convVars, originalInput>>
    /\ UNCHANGED funcVars

\* The enter delay, then the original input as literal text (error discarded).
Restore ==
    /\ pc = "restore"
    /\ \E ok \in BOOLEAN :
        /\ Fault(ok)
        /\ pane' = IF ok THEN PaneLiteral(pane, originalInput) ELSE pane
        /\ trace' = trace \o EnterDelay \o <<EvLiteral(originalInput, ok)>>
    /\ pc' = "wake"
    /\ UNCHANGED <<clearErr, message, err, clearVars, convVars, originalInput>>
    /\ UNCHANGED funcVars

\* WakePaneIfDetached, then return nil.
Wake ==
    /\ pc = "wake"
    /\ trace' = Append(trace, EvWake)
    /\ pc' = "done"
    /\ err' = NoErr
    /\ UNCHANGED <<clearErr, pane, message, faults, clearVars, convVars, originalInput>>
    /\ UNCHANGED funcVars

Next ==
    \/ CheckBlocked
    \/ CheckPaste
    \/ CaptureOriginal
    \/ SentinelCa
    \/ SentinelLiteral
    \/ SentinelCapture
    \/ RetryEscape
    \/ RetryI
    \/ ConvInitial
    \/ ConvCa
    \/ ConvCk
    \/ ConvCapture
    \/ CaptureCleared
    \/ Inject
    \/ Enter
    \/ Restore
    \/ Wake

Spec == Init /\ [][Next]_vars

\* ------------------------------------------- two concurrent deliveries
\* Everything one nudgeWithProtocol call works with: its argument, its
\* locals and those of clearInput and convergenceClear (sentinel, captures,
\* the cycle detector), its position and result, and the pane it addresses.
Ctx ==
    [pane |-> pane, message |-> message, pc |-> pc, err |-> err, trace |-> trace,
     faults |-> faults, originalCapture |-> originalCapture, sentinel |-> sentinel,
     attempt |-> attempt, captureN |-> captureN, clearErr |-> clearErr, prev |-> prev,
     recent |-> recent, iter |-> iter, originalInput |-> originalInput]

\* Faulty variant: one cycle detector serves both deliveries.
Resumed_SharedDetector(own, running) == [own EXCEPT !.recent = running.recent]

\* What a delivery continues with when it is scheduled again: its own state.
Resumed(own, running) == own

\* The scheduler moves from one delivery to the other.
Switch ==
    /\ other.pc # "done"
    /\ LET r == Resumed(other, Ctx) IN
       /\ pane' = r.pane
       /\ message' = r.message
       /\ pc' = r.pc
       /\ err' = r.err
       /\ trace' = r.trace
       /\ faults' = r.faults
       /\ originalCapture' = r.originalCapture
       /\ sentinel' = r.sentinel
       /\ attempt' = r.attempt
       /\ captureN' = r.captureN
       /\ clearErr' = r.clearErr
       /\ prev' = r.prev
       /\ recent' = r.recent
       /\ iter' = r.iter
       /\ originalInput' = r.originalInput
    /\ other' = Ctx
    /\ turn' = 3 - turn
    /\ UNCHANGED <<inputVars, diffOut, hunkOut, extractVars, strOut, fstep>>

\* Delivery 1 nudges a line editor in vi NORMAL mode or INSERT mode holding
\* "a"; delivery 2 nudges another pane, whose status line alternates, with
\* or without line-editing keys, and whose driver calls all succeed.
ConcInit ==
    /\ pane \in { p \in ModalPanes : p.kind = "readline" /\ p.lines = << <<97>> >> }
    /\ message = <<78>>
    /\ pc = "check_blocked"
    /\ err = NoErr
    /\ trace = <<>>
    /\ faults = 0
    /\ originalCapture = <<>>
    /\ sentinel = <<>>
    /\ attempt = 1
    /\ captureN = 0
    /\ clearErr = Pending
    /\ prev = <<>>
    /\ recent = <<>>
    /\ iter = 0
    /\ originalInput = <<>>
    /\ \E p \in { q \in TickerPanes \cup InertPanes : q.period = 2 } :
          other = [pane |-> p, message |-> <<79>>, pc |-> "check_blocked", err |-> NoErr,
                   trace |-> <<>>, faults |-> MaxFaults, originalCapture |-> <<>>,
                   sentinel |-> <<>>, attempt |-> 1, captureN |-> 0, clearErr |-> Pending,
                   prev |-> <<>>, recent |-> <<>>, iter |-> 0, originalInput |-> <<>>]
    /\ turn = 1
    /\ before = <<>>
    /\ after = <<>>
    /\ diffOut = <<>>
    /\ hunkOut = <<>>
    /\ winN = 0
    /\ candsOut = <<>>
    /\ selIdx = 0
    /\ extracted = <<>>
    /\ typed = <<>>
    /\ scenario = "concurrent"
    /\ strOut = <<>>
    /\ fstep = "idle"

ConcNext ==
    \/ Next
    \/ Switch

ConcSpec == ConcInit /\ [][ConcNext]_vars

\* Type correctness of the control state.
\* --------------------------------------------------- nudgeSessionReliable
\* The Ctrl-C based Clear/Inject/Verify protocol.
nudgeClearDelayMs == 50
reliableInjectDelayMs == 50

ErrPaneInMode == <<"ErrPaneInMode">>
ErrPastePlaceholder == <<"ErrPastePlaceholder">>
ErrNudgeNotFound == <<"ErrNudgeNotFound">>
ErrUserTyping == <<"ErrUserTyping">>

\* bytes.Index: the 0-based place of the first occurrence of sub in s, or -1.
Index(s, sub) ==
    LET hits == { i \in 0..(Len(s) - Len(sub)) : SubSeq(s, i + 1, i + Len(sub)) = sub }
    IN IF hits = {} THEN -1 ELSE CHOOSE i \in hits : \A j \in hits : i <= j

\* tailLines: the last n lines of data, found from the end; one trailing
\* newline is skipped.
tailLines(data, n) ==
    IF Len(data) = 0 \/ n <= 0 THEN <<>>
    ELSE LET end0 == IF data[Len(data)] = NL THEN Len(data) - 1 ELSE Len(data)
             RECURSIVE Back(_, _, _)
             Back(i, end, lines) ==
                 IF i < 1 \/ Len(lines) >= n THEN [end |-> end, lines |-> lines]
                 ELSE IF data[i] = NL
                 THEN Back(i - 1, i - 1, Append(lines, SubSeq(data, i + 1, end)))
                 ELSE Back(i - 1, end, lines)
             r == Back(end0, end0, <<>>)
             all == IF r.end > 0 /\ Len(r.lines) < n
                    THEN Append(r.lines, SubSeq(data, 1, r.end))
                    ELSE r.lines
         IN Reverse(all)

\* hasPastedTextPlaceholder: the pattern matches one of the last maxLines lines.
hasPastedTextPlaceholder(data, maxLines) ==
    LET lines == tailLines(data, maxLines)
    IN \E i \in 1..Len(lines) : MatchString(lines[i])

\* FindNudgeInDiff: the hunk (operations between Equal runs of at least
\* minEqualToBreakHunk bytes) whose range in AFTER holds the first
\* occurrence of the nudge; what it replaced, and what surrounds the nudge
\* inside the hunk.
FindNudgeInDiff(bef, aft, nudge, diffs) ==
    LET NotFound == [original |-> <<>>, beforeNudge |-> <<>>, afterNudge |-> <<>>,
                     found |-> FALSE]
        nudgePos == Index(aft, nudge)
        nudgeEnd == nudgePos + Len(nudge)
        RECURSIVE Collect(_, _, _)
        Collect(i, bp, ap) ==
            IF i > Len(diffs) THEN [i |-> i, bp |-> bp, ap |-> ap]
            ELSE LET op == diffs[i].op
                     dataLen == Len(diffs[i].data)
                 IN IF op = "equal" /\ dataLen >= minEqualToBreakHunk
                    THEN [i |-> i, bp |-> bp, ap |-> ap]
                    ELSE Collect(i + 1,
                                 IF op # "insert" THEN bp + dataLen ELSE bp,
                                 IF op # "delete" THEN ap + dataLen ELSE ap)
        RECURSIVE Walk(_, _, _)
        Walk(i, beforePos, afterPos) ==
            IF i > Len(diffs) THEN NotFound
            ELSE IF diffs[i].op = "equal"
            THEN Walk(i + 1, beforePos + Len(diffs[i].data), afterPos + Len(diffs[i].data))
            ELSE LET h == Collect(i, beforePos, afterPos) IN
                 IF nudgePos >= afterPos /\ nudgePos < h.ap
                 THEN LET changedInAfter == SubSeq(aft, afterPos + 1, h.ap)
                          localNudgePos == nudgePos - afterPos
                          localNudgeEnd == Min(nudgeEnd - afterPos, Len(changedInAfter))
                      IN [original |-> SubSeq(bef, beforePos + 1, h.bp),
                          beforeNudge |-> Take(changedInAfter, localNudgePos),
                          afterNudge |-> Drop(changedInAfter, localNudgeEnd),
                          found |-> TRUE]
                 ELSE Walk(h.i, h.bp, h.ap)
    IN IF nudgePos < 0 THEN NotFound ELSE Walk(1, 0, 0)

\* IsCleanDelivery: nothing but white space before and after the nudge.
IsCleanDelivery(beforeNudge, afterNudge) ==
    LET White == {TAB, NL, 11, 12, 13, SP}
        TrimSpace(s) == TrimLeft(TrimRight(s, White), White)
    IN Len(TrimSpace(beforeNudge)) = 0 /\ Len(TrimSpace(afterNudge)) = 0

\* What the user may type into the pane while the protocol sleeps.
UserTyping == { <<>>, <<SP>>, <<117>> }

\* What nudgeSessionReliable leaves alone.
reliableIdle == <<clearErr, clearVars, convVars, originalInput, concVars,
                  hunkOut, extractVars, typed, scenario, strOut, fstep>>

\* Pre-check: is the pane in a blocking mode?  (A pane-driver error is
\* returned as it is, without a wrapper, by every step below.)
ReliableCheckMode ==
    /\ pc = "r_check_mode"
    /\ \E ok \in BOOLEAN :
        /\ Fault(ok)
        /\ LET out == IF pane.blocked THEN "1" ELSE "0"
               inMode == InCopyMode(ok, out)
           IN /\ trace' = Append(trace, EvBlocked(IF ok THEN out ELSE "", ok))
              /\ pc' = IF inMode THEN "done" ELSE "r_capture_before"
              /\ err' = IF inMode THEN ErrPaneInMode ELSE NoErr
    /\ UNCHANGED <<pane, message, before, after, diffOut>>
    /\ UNCHANGED reliableIdle

\* Step 1: capture BEFORE, and look for a paste placeholder in it.
ReliableCaptureBefore ==
    /\ pc = "r_capture_before"
    /\ \E ok \in BOOLEAN :
        /\ Fault(ok)
        /\ IF ok
           THEN LET content == CapturePaneAll(pane, 0)
                    seen == hasPastedTextPlaceholder(content, nudgePastePlaceholderLines)
                IN /\ before' = content
                   /\ trace' = Append(trace, EvCaptureAll(0, content, TRUE))
                   /\ pc' = IF seen THEN "done" ELSE "r_clear"
                   /\ err' = IF seen THEN ErrPastePlaceholder ELSE NoErr
           ELSE /\ trace' = Append(trace, EvCaptureAll(0, <<>>, FALSE))
                /\ pc' = "done"
                /\ err' = <<"driver error">>
                /\ UNCHANGED before
    /\ UNCHANGED <<pane, message, after, diffOut>>
    /\ UNCHANGED reliableIdle

\* Step 2: space and Ctrl-C in one send-keys call, then the clear delay,
\* during which the user may type.
ReliableClear ==
    /\ pc = "r_clear"
    /\ \E ok \in BOOLEAN, gap \in UserTyping :
        /\ Fault(ok)
        /\ ~ok => gap = <<>>
        /\ IF ok
           THEN /\ pane' = PaneLiteral(PaneRaw(PaneRaw(pane, " "), "C-c"), gap)
                /\ trace' = trace \o <<EvRaw(" ", TRUE), EvRaw("C-c", TRUE),
                                       EvSleep(nudgeClearDelayMs)>>
                /\ pc' = "r_inject"
                /\ err' = NoErr
           ELSE /\ trace' = trace \o <<EvRaw(" ", FALSE), EvRaw("C-c", FALSE)>>
                /\ pc' = "done"
                /\ err' = <<"driver error">>
                /\ UNCHANGED pane
    /\ UNCHANGED <<message, before, after, diffOut>>
    /\ UNCHANGED reliableIdle

\* Step 3: the nudge as literal text, then the inject delay, during which
\* the user may type.
ReliableInject ==
    /\ pc = "r_inject"
    /\ \E ok \in BOOLEAN, tail \in UserTyping :
        /\ Fault(ok)
        /\ ~ok => tail = <<>>
        /\ IF ok
           THEN /\ pane' = PaneLiteral(PaneLiteral(pane, message), tail)
                /\ trace' = trace \o <<EvLiteral(message, TRUE),
                                       EvSleep(reliableInjectDelayMs)>>
                /\ pc' = "r_capture_after"
                /\ err' = NoErr
           ELSE /\ trace' = Append(trace, EvLiteral(message, FALSE))
                /\ pc' = "done"
                /\ err' = <<"driver error">>
                /\ UNCHANGED pane
    /\ UNCHANGED <<message, before, after, diffOut>>
    /\ UNCHANGED reliableIdle

\* Faulty variant: a nudge that cannot be verified is cleared and sent again.
AfterVerifyFailure_ClearAndRetry == "r_clear"

\* Position after a failed verification: the error is returned.
AfterVerifyFailure == "done"

\* Steps 4 to 6: capture AFTER, diff it against BEFORE, find the nudge and
\* verify that nothing was typed around it.
ReliableVerify ==
    /\ pc = "r_capture_after"
    /\ \E ok \in BOOLEAN :
        /\ Fault(ok)
        /\ IF ok
           THEN LET content == CapturePaneAll(pane, 0)
                    diffs == MyersDiff(before, content)
                    f == FindNudgeInDiff(before, content, message, diffs)
                    e == IF Index(content, message) < 0 THEN ErrNudgeNotFound
                         ELSE IF ~f.found THEN ErrNudgeNotFound
                         ELSE IF ~IsCleanDelivery(f.beforeNudge, f.afterNudge)
                         THEN ErrUserTyping
                         ELSE NoErr
                IN /\ after' = content
                   /\ diffOut' = IF Index(content, message) < 0 THEN diffOut ELSE diffs
                   /\ trace' = Append(trace, EvCaptureAll(0, content, TRUE))
                   /\ pc' = IF e = NoErr THEN "r_escape" ELSE AfterVerifyFailure
                   /\ err' = e
           ELSE /\ trace' = Append(trace, EvCaptureAll(0, <<>>, FALSE))
                /\ pc' = "done"
                /\ err' = <<"driver error">>
                /\ UNCHANGED <<after, diffOut>>
    /\ UNCHANGED <<pane, message, before>>
    /\ UNCHANGED reliableIdle

\* Escape for vim mode (its error is discarded), then 100 ms.
ReliableEscape ==
    /\ pc = "r_escape"
    /\ \E ok \in BOOLEAN :
        /\ Fault(ok)
        /\ pane' = IF ok THEN PaneRaw(pane, "Escape") ELSE pane
        /\ trace' = trace \o <<EvRaw("Escape", ok), EvSleep(100)>>
    /\ pc' = "r_enter"
    /\ UNCHANGED <<message, err, before, after, diffOut>>
    /\ UNCHANGED reliableIdle

\* Enter, then WakePaneIfDetached and return nil.
ReliableEnter ==
    /\ pc = "r_enter"
    /\ \E ok \in BOOLEAN :
        /\ Fault(ok)
        /\ IF ok
           THEN /\ pane' = PaneRaw(pane, "Enter")
                /\ trace' = trace \o <<EvRaw("Enter", TRUE), EvWake>>
                /\ err' = NoErr
           ELSE /\ trace' = Append(trace, EvRaw("Enter", FALSE))
                /\ err' = <<"driver error">>
                /\ UNCHANGED pane
    /\ pc' = "done"
    /\ UNCHANGED <<message, before, after, diffOut>>
    /\ UNCHANGED reliableIdle

\* Any pane, and a message that the screen may or may not already show.
ReliableInit ==
    /\ pane \in Panes
    /\ message \in Messages \cup { <<97>> }
    /\ pc = "r_check_mode"
    /\ err = NoErr
    /\ trace = <<>>
    /\ faults = 0
    /\ originalCapture = <<>>
    /\ sentinel = <<>>
    /\ attempt = 1
    /\ captureN = 0
    /\ clearErr = Pending
    /\ prev = <<>>
    /\ recent = <<>>
    /\ iter = 0
    /\ originalInput = <<>>
    /\ other = <<>>
    /\ turn = 1
    /\ before = <<>>
    /\ after = <<>>
    /\ diffOut = <<>>
    /\ hunkOut = <<>>
    /\ winN = 0
    /\ candsOut = <<>>
    /\ selIdx = 0
    /\ extracted = <<>>
    /\ typed = <<>>
    /\ scenario = "reliable"
    /\ strOut = <<>>
    /\ fstep = "idle"

ReliableNext ==
    \/ ReliableCheckMode
    \/ ReliableCaptureBefore
    \/ ReliableClear
    \/ ReliableInject
    \/ ReliableVerify
    \/ ReliableEscape
    \/ ReliableEnter

ReliableSpec == ReliableInit /\ [][ReliableNext]_vars

TypeOK ==
    /\ pc \in {"check_blocked", "check_paste", "capture_original", "sentinel_ca",
               "sentinel_literal", "sentinel_capture", "retry_escape", "retry_i",
               "conv_initial", "conv_ca", "conv_ck", "conv_capture", "capture_cleared",
               "inject", "enter", "restore", "wake", "done"}
    /\ faults \in 0..MaxFaults
    /\ attempt \in {1, 2}
    /\ iter \in 0..nudgeMaxClearIterations

\* ---------------------------------------------- MyersDiff and GroupHunks
\* The diff functions applied to every pair of short byte strings, and
\* GroupHunks applied to diffs with one Equal run between two edits.
DiffInputs == UNION { [1..n -> {97, 98}] : n \in 0..MaxDiffLen }

\* Diffs with one Equal run of 1..MaxEqualLen or 31..33 bytes between two
\* edits, with or without an Equal before and after.
GivenDiffs ==
    LET EqualRun(n) == [i \in 1..n |-> 120]
        EqualLens == (1..MaxEqualLen) \cup {31, 32, 33}
        Edits == { <<DiffOf("delete", <<97>>)>>, <<DiffOf("insert", <<98, 98>>)>>,
                   <<DiffOf("delete", <<97, 97>>), DiffOf("insert", <<98>>)>> }
        OuterEquals == { <<>>, <<DiffOf("equal", <<111, NL>>)>> }
    IN { lead \o e1 \o <<DiffOf("equal", EqualRun(n))>> \o e2 \o trail :
           lead \in OuterEquals, e1 \in Edits, n \in EqualLens, e2 \in Edits,
           trail \in OuterEquals }

\* Pairs of captures: some output, a prompt and a typed single line, against
\* the same output and prompt with the line cleared.
PromptCaptures ==
    LET Outputs == { <<>>, OutputText }
        Prompts == { <<36, SP>>, <<62, SP>>, <<62, 62, 62, SP>>, <<226, 157, 175, SP>> }
        Typed == UNION { [1..n -> {97, SP, 36}] : n \in 1..MaxTypedLen }
    IN { [original |-> o \o pr \o ty, cleared |-> o \o pr] :
           o \in Outputs, pr \in Prompts, ty \in Typed }

\* Pairs of captures made of up to MaxRegions changed regions with a
\* separator byte between them: cleared multi-line inputs (continuation
\* lines indented), cleared single-line inputs, status texts that change,
\* regions that grow, and regions that do not change.
RegionCaptures ==
    LET Regions ==
            { [del |-> <<97, NL, SP, 98>>, ins |-> <<>>],
              [del |-> <<99, NL, SP, 100>>, ins |-> <<>>],
              [del |-> <<101, NL, SP, 102>>, ins |-> <<119, 120, 121, 122, 49>>],
              [del |-> <<115, 49>>, ins |-> <<115, 50>>],
              [del |-> <<120, 121>>, ins |-> <<>>],
              [del |-> <<103, 104>>, ins |-> <<107>>],
              [del |-> <<112>>, ins |-> <<113, 114>>],
              [del |-> <<>>, ins |-> <<>>] }
        Lists == UNION { [1..n -> Regions] : n \in 1..MaxRegions }
        Cat[i \in 0..MaxRegions] ==
            [rs \in Lists |->
               IF i = 0 \/ i > Len(rs) THEN [original |-> <<>>, cleared |-> <<>>]
               ELSE LET rest == Cat[i - 1][rs]
                        sep == IF i = 1 THEN <<>> ELSE <<61>>
                    IN [original |-> rest.original \o sep \o rs[i].del,
                        cleared |-> rest.cleared \o sep \o rs[i].ins]]
    IN { Cat[Len(rs)][rs] : rs \in Lists }

\* Pairs of captures built around a multi-line input: output, a prompt and
\* line 0, then every further line behind the same continuation prefix (an
\* empty line is displayed empty), against the same output and prompt.
MultiLineCaptures ==
    LET Outputs == { <<>>, OutputText }
        Prefixes == { ContPrefix, <<46, 46, SP>> }
        FirstLines == { <<>>, <<97>>, <<SP, SP, 97>> }
        ContInputs == { <<>>, <<98>>, <<SP, 98>>, <<98, SP>> }
        Conts == UNION { [1..n -> ContInputs] : n \in 1..MaxContLines }
        Shown(cp, l) == IF l = <<>> THEN <<>> ELSE cp \o l
    IN { [original |-> o \o PromptText \o
                       JoinLines(<<l0>> \o [i \in 1..Len(ls) |-> Shown(cp, ls[i])]),
          cleared |-> o \o PromptText,
          typed |-> JoinLines(<<l0>> \o ls),
          scenario |-> "multiline"] :
           o \in Outputs, cp \in Prefixes, l0 \in FirstLines, ls \in Conts }

\* Pairs of captures with a status text and a separator line of 40
\* characters above or below the prompt: the status text changes or stays,
\* and the input (none, one line, or two lines behind the continuation
\* prefix) is cleared.
StatusCaptures ==
    LET Statuses == { <<115, 49>>, <<115, 50>>, <<120, 121>>, <<120>> }
        SepChars == { <<61>>, <<45>>, <<35>> }
        Sep(ch) == [i \in 1..(40 * Len(ch)) |-> ch[((i - 1) % Len(ch)) + 1]]
        Inputs == { [typed |-> <<>>, shown |-> <<>>],
                    [typed |-> <<97>>, shown |-> <<97>>],
                    [typed |-> <<SP, 97>>, shown |-> <<SP, 97>>],
                    [typed |-> <<99, NL, 100>>, shown |-> <<99, NL>> \o ContPrefix \o <<100>>] }
        Kind(in, s1, s2) ==
            IF in.typed = <<>>
            THEN (IF s1 = s2 THEN "identical" ELSE "status_only")
            ELSE (IF s1 = s2 THEN "input_only" ELSE "status")
    IN { [original |-> IF above
                       THEN s1 \o <<NL>> \o Sep(ch) \o <<NL>> \o PromptText \o in.shown
                       ELSE OutputText \o PromptText \o in.shown \o <<NL>> \o Sep(ch)
                                \o <<NL>> \o s1,
          cleared |-> IF above
                      THEN s2 \o <<NL>> \o Sep(ch) \o <<NL>> \o PromptText
                      ELSE OutputText \o PromptText \o <<NL>> \o Sep(ch) \o <<NL>> \o s2,
          typed |-> in.typed,
          scenario |-> Kind(in, s1, s2)] :
           above \in BOOLEAN, s1 \in Statuses, s2 \in Statuses, ch \in SepChars,
           in \in Inputs }

\* Deleted regions: a line 0 and up to MaxContLines further lines, empty or
\* starting with blanks, tabs, dots, a colon, '>' or a multi-byte character.
DeletedTexts ==
    LET FirstLines == { <<>>, <<97>>, <<SP, SP, 97>> }
        LaterLines == { <<>>, <<SP, SP, 97>>, <<SP, SP, 98>>, <<SP, TAB, 98>>,
                       <<46, 46, 58, SP, 97>>, <<46, 46, 58, SP, 98>>,
                       <<SP, SP, 195, 169>>, <<SP, SP, 195, 168>>, <<SP, 62, 97>> }
        Conts == UNION { [1..n -> LaterLines] : n \in 0..MaxContLines }
    IN { JoinLines(<<l0>> \o ls) : l0 \in FirstLines, ls \in Conts }

\* Well-formed UTF-8 strings of up to MaxRunes code points of one to four
\* bytes, some of which share their leading bytes.
RuneStrings ==
    LET Runes == { <<97>>, <<98>>, <<195, 169>>, <<195, 168>>, <<226, 157, 175>>,
                   <<226, 157, 174>>, <<240, 159, 152, 128>> }
        Cat[n \in 0..MaxRunes] ==
            IF n = 0 THEN { <<>> } ELSE { s \o r : s \in Cat[n - 1], r \in Runes }
    IN UNION { Cat[n] : n \in 0..MaxRunes }

\* Candidate prefixes: whitelisted bytes, letters, digits, other punctuation
\* and a byte above 0x7F, in any order.
PrefixTexts ==
    UNION { [1..n -> {SP, TAB, 46, 62, 124, 58, 97, 49, 45, 195}] : n \in 0..MaxPrefixLen }

NudgeIdle ==
    /\ pane = [kind |-> "raw", blocked |-> FALSE, lines |-> << <<>> >>, row |-> 1,
               col |-> 0, period |-> 1, tick |-> 0, mode |-> "insert", dg |-> 0,
               submitted |-> <<>>]
    /\ message = <<>>
    /\ pc = "done"
    /\ err = NoErr
    /\ trace = <<>>
    /\ faults = 0
    /\ originalCapture = <<>>
    /\ sentinel = <<>>
    /\ attempt = 1
    /\ captureN = 0
    /\ clearErr = Pending
    /\ prev = <<>>
    /\ recent = <<>>
    /\ iter = 0
    /\ originalInput = <<>>
    /\ other = <<>>
    /\ turn = 1

\* Captures with a scrollback longer than the trim window above the prompt:
\* k lines that are all empty prompts, all blank, all the same output, or
\* numbered, then the prompt with an input of one to three lines; the
\* cleared capture has the bare prompt (trailing spaces are stripped by the
\* capture).
TrimCaptures ==
    LET ScrollLine(kind, i) ==
            CASE kind = "prompts" -> <<36>>
              [] kind = "blank" -> <<>>
              [] kind = "same" -> <<111>>
              [] OTHER -> <<48 + (i % 10)>>
        RECURSIVE Scroll(_, _)
        Scroll(kind, i) == IF i = 0 THEN <<>>
                           ELSE Scroll(kind, i - 1) \o ScrollLine(kind, i) \o <<NL>>
        Inputs == { <<97>>, <<97, NL, SP, SP, 98>>, <<97, NL, SP, SP, 98, NL, SP, SP, 99>> }
    IN { [original |-> Scroll(kind, k) \o PromptText \o inp,
          cleared |-> Scroll(kind, k) \o TrimRight(PromptText, {SP}),
          typed |-> inp, scenario |-> "trimmed"] :
         kind \in {"prompts", "blank", "same", "numbered"}, k \in {22, 26, 30}, inp \in Inputs }

FuncInit ==
    /\ NudgeIdle
    /\ hunkOut = <<>>
    /\ \/ /\ before \in DiffInputs
          /\ after \in DiffInputs
          /\ diffOut = <<>>
          /\ typed = <<>>
          /\ scenario = "bytes"
          /\ fstep = "input"
       \/ /\ before = <<>>
          /\ after = <<>>
          /\ diffOut \in GivenDiffs
          /\ typed = <<>>
          /\ scenario = "diffs"
          /\ fstep = "given"
       \/ /\ \E c \in PromptCaptures \cup RegionCaptures :
                before = c.original /\ after = c.cleared
          /\ diffOut = <<>>
          /\ typed = <<>>
          /\ scenario = "regions"
          /\ fstep = "captures"
       \/ /\ \E c \in MultiLineCaptures \cup StatusCaptures \cup TrimCaptures :
                /\ before = c.original /\ after = c.cleared
                /\ typed = c.typed /\ scenario = c.scenario
          /\ diffOut = <<>>
          /\ fstep = "captures"
       \/ /\ before \in DeletedTexts
          /\ after = <<>>
          /\ diffOut = <<>>
          /\ typed = <<>>
          /\ scenario = "deleted"
          /\ fstep = "deleted"
       \/ /\ before \in RuneStrings
          /\ after \in RuneStrings
          /\ diffOut = <<>>
          /\ typed = <<>>
          /\ scenario = "runes"
          /\ fstep = "pair"
       \/ /\ before \in PrefixTexts
          /\ after = <<>>
          /\ diffOut = <<>>
          /\ typed = <<>>
          /\ scenario = "prefix"
          /\ fstep = "prefix"
    /\ winN \in (IF scenario = "trimmed" THEN {3, nudgeMinCaptureN} ELSE {0})
    /\ candsOut = <<>>
    /\ selIdx = 0
    /\ extracted = <<>>
    /\ strOut = <<>>

\* diffs := MyersDiff(a, b)
CallMyersDiff ==
    /\ fstep = "input"
    /\ diffOut' = MyersDiff(before, after)
    /\ fstep' = "diffed"
    /\ UNCHANGED <<inputVars, hunkOut, strOut>>
    /\ UNCHANGED <<nudgeVars, extractVars>>

\* hunks := GroupHunks(diffs)
CallGroupHunks ==
    /\ fstep \in {"diffed", "given"}
    /\ hunkOut' = GroupHunks(diffOut)
    /\ fstep' = IF fstep = "diffed" THEN "grouped" ELSE "grouped_given"
    /\ UNCHANGED <<inputVars, diffOut, strOut>>
    /\ UNCHANGED <<nudgeVars, extractVars>>

\* originalInput := extractOriginalInput(originalCapture, clearedCapture, captureN)
CallExtract ==
    /\ fstep = "captures"
    /\ LET cands == ExtractCandidates(before, after, winN) IN
       /\ candsOut' = cands
       /\ selIdx' = IF cands = <<>> THEN 0 ELSE SelectCandidate(cands)
    /\ extracted' = extractOriginalInput(before, after, winN)
    /\ fstep' = "extracted"
    /\ UNCHANGED <<inputVars, diffOut, hunkOut, winN, strOut>>
    /\ UNCHANGED nudgeVars

\* contPrefix := detectContinuationPrefix(d)
CallDetectPrefix ==
    /\ fstep = "deleted"
    /\ strOut' = detectContinuationPrefix(before)
    /\ fstep' = "detected"
    /\ UNCHANGED <<inputVars, diffOut, hunkOut>>
    /\ UNCHANGED <<nudgeVars, extractVars>>

\* prefix = commonStringPrefix(prefix, l)
CallCommonPrefix ==
    /\ fstep = "pair"
    /\ strOut' = commonStringPrefix(before, after)
    /\ fstep' = "common"
    /\ UNCHANGED <<inputVars, diffOut, hunkOut>>
    /\ UNCHANGED <<nudgeVars, extractVars>>

\* return trimToNonContent(prefix)
CallTrim ==
    /\ fstep = "prefix"
    /\ strOut' = trimToNonContent(before)
    /\ fstep' = "trimmed"
    /\ UNCHANGED <<inputVars, diffOut, hunkOut>>
    /\ UNCHANGED <<nudgeVars, extractVars>>

FuncNext ==
    \/ CallMyersDiff
    \/ CallGroupHunks
    \/ CallExtract
    \/ CallDetectPrefix
    \/ CallCommonPrefix
    \/ CallTrim

FuncSpec == FuncInit /\ [][FuncNext]_vars

\* ======================================================================
\* Properties
\* ======================================================================
Done == pc = "done"
Wrapped(e) == <<"nudge">> \o e

IsKey(e) == e.op = "raw" \/ e.op = "literal"
IsMessage(e) == e.op = "literal" /\ e.text = message
IsEnter(e) == e.op = "raw" /\ e.key = "Enter"

\* The events the last step added (a step adds at most three).
Recent(k) == SubSeq(trace, Max(1, Len(trace) - k + 1), Len(trace))
Events(sq) == { sq[i] : i \in 1..Len(sq) }

\* The windowed captures of convergenceClear that succeeded, in order (the
\* capture at position 2 of the trace is the paste check's).
WindowCaptures ==
    SelectSeq(SubSeq(trace, 3, Len(trace)), LAMBDA e : e.op = "capture" /\ e.ok)

\* The last event is a successful capture of the convergence loop proper.
AtLoopCapture ==
    /\ Len(trace) > 3
    /\ trace[Len(trace)].op = "capture" /\ trace[Len(trace)].ok
    /\ trace[Len(trace) - 1].op = "sleep"

\* C1: the message literal and Enter are sent only once clearInput has
\* returned nil; when clearInput returns an error the call is over and
\* neither has been sent.
C1_InjectOnlyAfterClear ==
    /\ \A e \in Events(Recent(3)) : (IsMessage(e) \/ IsEnter(e)) => clearErr = NoErr
    /\ (clearErr # Pending /\ clearErr # NoErr) =>
          /\ Done
          /\ err = Wrapped(clearErr)
          /\ \A e \in Events(Recent(3)) : ~IsMessage(e) /\ ~IsEnter(e)

C1_Witness ==
    Done /\ clearErr = ErrClearStalled /\ \A i \in 1..Len(trace) : ~IsMessage(trace[i])

\* The shape of a trace event: what was called, without what a capture returned.
Shape(e) ==
    [op |-> e.op, key |-> IF e.op = "is_blocked" THEN "" ELSE e.key, n |-> e.n,
     text |-> IF e.op = "literal" THEN e.text ELSE <<>>]
Sh(op, key, n, text) == [op |-> op, key |-> key, n |-> n, text |-> text]
ShRaw(key) == Sh("raw", key, 0, <<>>)
ShLit(text) == Sh("literal", "", 0, text)
ShSleep(ms) == Sh("sleep", "", ms, <<>>)
ShCap(n) == Sh("capture", "", n, <<>>)
ShCapAll(n) == Sh("capture_all", "", n, <<>>)

RECURSIVE Repeat(_, _)
Repeat(sq, k) == IF k = 0 THEN <<>> ELSE sq \o Repeat(sq, k - 1)

\* The documented order of a delivery that clears in k iterations with window
\* n, sentinels s1 (and s2 when the vim retry ran), and restores orig.
ExpectedOrder(n, k, retried, s1, s2, msg, orig) ==
    << Sh("is_blocked", "", 0, <<>>), ShCap(50), ShCapAll(0),
       ShRaw("C-a"), ShLit(s1), ShSleep(50), ShCapAll(0) >>
    \o (IF retried
        THEN << ShRaw("Escape"), ShSleep(50), ShRaw("i"), ShSleep(50),
                ShRaw("C-a"), ShLit(s2), ShSleep(50), ShCapAll(0) >>
        ELSE <<>>)
    \o << ShCap(n) >>
    \o Repeat(<< ShRaw("C-a"), ShRaw("C-k"), ShSleep(50), ShCap(n) >>, k)
    \o << ShCapAll(n + 20), ShLit(msg), ShSleep(100), ShRaw("Enter") >>
    \o (IF orig # <<>> THEN << ShSleep(200), ShLit(orig) >> ELSE <<>>)
    \o << Sh("wake", "", 0, <<>>) >>

\* The pane interactions and sleeps of the trace (makeSentinel calls left out).
Interactions == SelectSeq(trace, LAMBDA e : e.op # "makeSentinel")
SentinelsMade == SelectSeq(trace, LAMBDA e : e.op = "makeSentinel")
CkCount == Len(SelectSeq(trace, LAMBDA e : e.op = "raw" /\ e.key = "C-k"))

\* C2: a successful delivery is exactly the documented sequence of pane
\* interactions, each capture that follows a send preceded by its delay.
C2_FixedOrder ==
    (Done /\ err = NoErr) =>
        LET made == SentinelsMade
            its == Interactions
        IN /\ CkCount >= 1
           /\ [i \in 1..Len(its) |-> Shape(its[i])] =
                 ExpectedOrder(captureN, CkCount, Len(made) = 2, made[1].text,
                               made[Len(made)].text, message, originalInput)

C2_Witness ==
    Done /\ err = NoErr /\ attempt = 2 /\ originalInput # <<>> /\ CkCount >= 2

\* The paste placeholder is on the pane, within its last 50 lines.
PlaceholderVisible == MatchString(CapturePane(pane, nudgePastePlaceholderLines))

\* C3: while a paste placeholder is visible in the last 50 lines no keystroke
\* (raw key or literal) has been sent, and the delivery ends with
\* ErrPasteDetected (ErrPaneBlocked when the pane also reports a blocking
\* mode, the check that comes first).
C3_PasteNoKeystroke ==
    PlaceholderVisible =>
        /\ \A e \in Events(Recent(3)) : ~IsKey(e)
        /\ Done => \/ err = ErrPasteDetected
                   \/ (pane.blocked /\ err = ErrPaneBlocked)

\* C4: the blocked check is the first thing a delivery does and the paste
\* check's capture the second; when the pane reports a blocking mode the
\* blocked check is the only thing: the call returns ErrPaneBlocked with no
\* capture, key or literal after it.
C4_BlockedFirst ==
    trace # <<>> =>
        /\ trace[1].op = "is_blocked"
        /\ Len(trace) >= 2 => Shape(trace[2]) = ShCap(nudgePastePlaceholderLines)
        /\ \A i \in Max(2, Len(trace) - 2)..Len(trace) : trace[i].op # "is_blocked"
        /\ (trace[1].ok /\ trace[1].key = "1") =>
              (Len(trace) = 1 /\ Done /\ err = ErrPaneBlocked)

C4_Witness == Done /\ err = ErrPaneBlocked /\ pane.blocked /\ Len(trace) = 1

\* The retry path of clearInput, as pane interactions, with sentinel s2.
RetryOrder(s2) ==
    << ShRaw("Escape"), ShSleep(50), ShRaw("i"), ShSleep(50),
       Sh("makeSentinel", "", 0, <<>>), ShRaw("C-a"), ShLit(s2), ShSleep(50), ShCapAll(0) >>

\* The sentinel of trace position i is found in the probe capture at position j.
FoundAt(i, j) == findSentinelFromEnd(SplitLines(trace[j].text), trace[i].text)[3]

\* C5: the first probe capture is event 8.  If it shows the sentinel, Escape
\* and i are never sent.  If not, what follows is Escape, i, a new sentinel,
\* C-a, that sentinel, the probe capture, in this order and once (cut short
\* only by a failing C-a, literal or capture); and when the second probe does
\* not show the sentinel either the call ends there with the
\* sentinel-not-found error.
C5_RetryOnce ==
    (Len(trace) >= 8 /\ trace[8].ok) =>
        IF FoundAt(6, 8)
        THEN \A e \in Events(Recent(3)) : ~(e.op = "raw" /\ e.key \in {"Escape", "i"})
        ELSE LET seg == SubSeq(trace, 9, Min(Len(trace), 17))
                 s2 == IF Len(trace) >= 13 THEN trace[13].text ELSE <<>>
             IN /\ [i \in 1..Len(seg) |-> Shape(seg[i])] = Take(RetryOrder(s2), Len(seg))
                /\ Len(trace) >= 13 => trace[13].text \in Sentinels
                /\ (Done /\ Len(trace) < 17) =>
                      (Len(trace) >= 14 /\ ~trace[Len(trace)].ok)
                /\ (Len(trace) >= 17 /\ trace[17].ok /\ ~FoundAt(15, 17)) =>
                      (Len(trace) = 17 /\ Done /\ err = Wrapped(ErrSentinelNotFound))
                /\ Len(trace) > 17 =>
                      \A e \in Events(Recent(3)) :
                          ~(e.op = "makeSentinel") /\ ~(e.op = "raw" /\ e.key \in {"Escape", "i"})

C5_Witness ==
    Done /\ err = Wrapped(ErrSentinelNotFound) /\ Len(trace) = 17 /\ trace[9].key = "Escape"

\* C6: convergenceClear has returned nil exactly when the last two windowed
\* captures are equal, and no earlier pair of consecutive captures is equal.
C6_ConvergeAtFirstEqual ==
    LET w == WindowCaptures
        n == Len(w)
    IN /\ clearErr = NoErr => (n >= 2 /\ w[n].text = w[n - 1].text)
       /\ (n >= 2 /\ w[n].text = w[n - 1].text) => clearErr = NoErr
       /\ \A j \in 2..(n - 1) : w[j].text # w[j - 1].text

C6_Witness == clearErr = NoErr /\ Len(WindowCaptures) >= 4

\* C7: when the capture of an iteration differs from the previous one and
\* equals one of the last 8 recorded captures, convergenceClear has returned
\* ErrClearStalled and the call is over.
C7_StallOnRepeat ==
    AtLoopCapture =>
        LET w == WindowCaptures
            n == Len(w)
            cur == w[n].text
        IN (/\ cur # w[n - 1].text
            /\ \E j \in Max(2, n - 8)..(n - 1) : w[j].text = cur)
           => (clearErr = ErrClearStalled /\ Done /\ err = Wrapped(ErrClearStalled))

C7_Witness ==
    Done /\ clearErr = ErrClearStalled /\ pane.period = 8 /\ Len(WindowCaptures) = 10

\* C8: one clear sends at most 200 C-k; when the 200th iteration neither
\* converges nor repeats a recorded capture the clear has returned the
\* iteration-exceeded error; and a whole delivery is at most 824 pane
\* interactions and sleeps long, whatever the pane shows.
C8_Bounded ==
    /\ CkCount <= 200
    /\ (AtLoopCapture /\ CkCount = 200) =>
          LET w == WindowCaptures
              n == Len(w)
          IN (/\ w[n].text # w[n - 1].text
              /\ \A j \in Max(2, n - 8)..(n - 1) : w[j].text # w[n].text)
             => (clearErr = ErrIterations /\ Done /\ err = Wrapped(ErrIterations))
    /\ Len(Interactions) <= 24 + 4 * 200

C8_Witness == Done /\ clearErr = ErrIterations /\ CkCount = 200

\* C9: when convergenceClear has just returned nil on a line editor that
\* nothing else edits, the input field is empty.
C9_InputEmptyOnConvergence ==
    (pc = "capture_cleared" /\ pane.kind = "readline" /\ pane.period = 1 /\ faults = 0)
        => pane.lines = << <<>> >>

\* C10: a delivery in which a pane-driver call failed ends with that driver
\* error, not with nil and not with another error.
C10_NoMaskedFailure ==
    (Done /\ faults > 0) => (err # NoErr /\ err[Len(err)] = "driver error")

\* What follows a successful Enter in the trace.
AfterEnterEvents ==
    LET at == { i \in 1..Len(trace) : IsEnter(trace[i]) /\ trace[i].ok }
    IN IF at = {} THEN <<>>
       ELSE LET i == CHOOSE j \in at : TRUE
            IN [k \in 1..(Len(trace) - i) |-> Shape(trace[i + k])]

\* C11: once Enter has been sent, the reconstructed input is sent back as
\* literal text exactly when it is non-empty, after the 200 ms enter delay
\* and before the wake; when it is empty only the wake follows Enter.  No
\* enter delay and no restore literal comes before Enter.
C11_RestoreIffNonEmpty ==
    LET sent == { i \in 1..Len(trace) : IsEnter(trace[i]) }
        full == IF originalInput # <<>>
                THEN << ShSleep(200), ShLit(originalInput), Sh("wake", "", 0, <<>>) >>
                ELSE << Sh("wake", "", 0, <<>>) >>
        tail == AfterEnterEvents
    IN /\ Cardinality(sent) <= 1
       /\ (sent = {}) =>
             (\A e \in Events(Recent(3)) : Shape(e) # ShSleep(200) /\ e.op # "wake")
       /\ \A i \in sent :
             /\ trace[i].ok => /\ Len(tail) <= Len(full)
                                /\ tail = Take(full, Len(tail))
                                /\ (Done => tail = full)
                                /\ (pc = "wake" => Len(tail) = Len(full) - 1)
             /\ ~trace[i].ok => (i = Len(trace) /\ Done)

C11_Witness ==
    /\ Done /\ originalInput # <<>> /\ Len(trace) >= 4
    /\ IsEnter(trace[Len(trace) - 3]) /\ trace[Len(trace) - 3].ok
    /\ trace[Len(trace) - 1].op = "literal" /\ trace[Len(trace) - 1].text = originalInput

\* Enter was sent and nothing was reconstructed: the wake follows directly.
C11_WitnessEmpty ==
    /\ Done /\ originalInput = <<>> /\ Len(trace) >= 2
    /\ IsEnter(trace[Len(trace) - 1]) /\ trace[Len(trace) - 1].ok

\* The bytes carried by the operations of the given kinds, in order.
RECURSIVE DataOf(_, _)
DataOf(diffs, kinds) ==
    IF diffs = <<>> THEN <<>>
    ELSE (IF Head(diffs).op \in kinds THEN Head(diffs).data ELSE <<>>)
         \o DataOf(Tail(diffs), kinds)

\* MyersDiff has been applied to (before, after).
Diffed == fstep \in {"diffed", "grouped"}

\* C12: the Equal and Insert data of MyersDiff(a, b), in order, is b.
C12_EqualInsertIsTarget ==
    Diffed => DataOf(diffOut, {"equal", "insert"}) = after

C12_Witness ==
    /\ fstep = "diffed" /\ before = <<97, 98, 97, 97>> /\ after = <<98, 97, 98>>
    /\ DataOf(diffOut, {"equal", "insert"}) = after
    /\ \E i, j, k \in 1..Len(diffOut) :
          diffOut[i].op = "equal" /\ diffOut[j].op = "insert" /\ diffOut[k].op = "delete"

\* C13: the Equal and Delete data of MyersDiff(a, b), in order, is a.
C13_EqualDeleteIsSource ==
    Diffed => DataOf(diffOut, {"equal", "delete"}) = before

C13_Witness ==
    /\ fstep = "diffed" /\ before = <<97, 98, 98, 97>> /\ after = <<98, 97, 97, 98>>
    /\ DataOf(diffOut, {"equal", "delete"}) = before
    /\ Len(diffOut) >= 3

\* Length of a longest common subsequence.
RECURSIVE LCS(_, _)
LCS(a, b) ==
    IF a = <<>> \/ b = <<>> THEN 0
    ELSE IF Head(a) = Head(b) THEN 1 + LCS(Tail(a), Tail(b))
    ELSE Max(LCS(Tail(a), b), LCS(a, Tail(b)))

\* C14: the Delete and Insert operations of MyersDiff(a, b) carry
\* len(a) + len(b) - 2*LCS(a, b) bytes: the script is a shortest one.
C14_ShortestScript ==
    Diffed =>
        Len(DataOf(diffOut, {"delete", "insert"}))
            = Len(before) + Len(after) - 2 * LCS(before, after)

\* A pair with a common prefix and suffix around a middle the core diffs.
C14_Witness ==
    /\ fstep = "diffed" /\ before = <<97, 98, 97, 97>> /\ after = <<97, 97, 98, 97>>
    /\ Len(DataOf(diffOut, {"delete", "insert"})) = 2
    /\ LCS(before, after) = 3

\* C15: the list MyersDiff returns has no empty operation and no two
\* consecutive operations of one kind; two empty inputs give the empty
\* list, one empty input a single Insert or Delete, equal inputs a single
\* Equal carrying a.
C15_Merged ==
    Diffed =>
        /\ \A i \in 1..Len(diffOut) : diffOut[i].data # <<>>
        /\ \A i \in 1..(Len(diffOut) - 1) : diffOut[i].op # diffOut[i + 1].op
        /\ (before = <<>> /\ after = <<>>) => diffOut = <<>>
        /\ (before = <<>> /\ after # <<>>) => diffOut = <<DiffOf("insert", after)>>
        /\ (before # <<>> /\ after = <<>>) => diffOut = <<DiffOf("delete", before)>>
        /\ (before = after /\ before # <<>>) => diffOut = <<DiffOf("equal", before)>>

\* A common prefix and suffix re-emitted around a middle of several ops.
C15_Witness ==
    /\ fstep = "diffed" /\ Len(diffOut) >= 4
    /\ diffOut[1].op = "equal" /\ diffOut[Len(diffOut)].op = "equal"

\* GroupHunks has been applied to diffOut.
Grouped == fstep \in {"grouped", "grouped_given"}

\* The Equal operations that lie between two edits.
InteriorEquals(diffs) ==
    { i \in 1..Len(diffs) :
        /\ diffs[i].op = "equal"
        /\ \E j \in 1..(i - 1) : diffs[j].op # "equal"
        /\ \E k \in (i + 1)..Len(diffs) : diffs[k].op # "equal" }

\* The hunk holding exactly the edits of a run of operations.
HunkOf(diffs) ==
    [deleted |-> DataOf(diffs, {"delete"}), inserted |-> DataOf(diffs, {"insert"})]

\* C16: with a single Equal of at least the threshold between two edits,
\* GroupHunks returns two hunks, each holding its own edit's bytes only.
C16_BreaksAtThreshold ==
    Grouped =>
        \A i \in InteriorEquals(diffOut) :
            (InteriorEquals(diffOut) = {i} /\ Len(diffOut[i].data) >= minEqualToBreakHunk)
            => hunkOut = << HunkOf(SubSeq(diffOut, 1, i - 1)),
                            HunkOf(SubSeq(diffOut, i + 1, Len(diffOut))) >>

C16_Witness ==
    /\ fstep = "grouped_given" /\ Len(hunkOut) = 2
    /\ \E i \in InteriorEquals(diffOut) :
          /\ Len(diffOut[i].data) = minEqualToBreakHunk
          /\ diffOut[i - 1].op = "insert" /\ diffOut[i + 1].op = "delete"
          /\ hunkOut[1].deleted # <<>> /\ hunkOut[2].inserted # <<>>

\* C17: with a single Equal shorter than the threshold between two edits,
\* GroupHunks returns one hunk with the Equal's bytes in both its Deleted
\* and its Inserted; and the hunks returned are separated only by Equals
\* of at least the threshold.
C17_AbsorbsSmallEqual ==
    Grouped =>
        /\ \A i \in InteriorEquals(diffOut) :
              (InteriorEquals(diffOut) = {i} /\ Len(diffOut[i].data) < minEqualToBreakHunk)
              => LET l == HunkOf(SubSeq(diffOut, 1, i - 1))
                     r == HunkOf(SubSeq(diffOut, i + 1, Len(diffOut)))
                     e == diffOut[i].data
                 IN hunkOut = << [deleted |-> l.deleted \o e \o r.deleted,
                                  inserted |-> l.inserted \o e \o r.inserted] >>
        /\ hunkOut # <<>> =>
              Len(hunkOut) = 1 + Cardinality({ i \in InteriorEquals(diffOut) :
                                                Len(diffOut[i].data) >= minEqualToBreakHunk })

\* extractOriginalInput has been applied to (before, after, winN).
Extracted == fstep = "extracted"

\* The candidates with a non-empty detected continuation prefix.
WithPrefix(cands) == { i \in 1..Len(cands) : cands[i].contPrefix # <<>> }

\* C18: the candidates are the hunks with non-empty Deleted, each with its
\* detected continuation prefix; the one selected is the last with a
\* non-empty prefix, and when there is none, one whose Inserted is smallest.
C18_SelectionOrder ==
    Extracted =>
        /\ LET keep == IF winN > 0 THEN winN + nudgeDiffMarginLines ELSE 0 IN
           candsOut = Candidates(GroupHunks(MyersDiff(lastNLines(before, keep),
                                                      lastNLines(after, keep))))
        /\ \A i \in 1..Len(candsOut) :
              /\ candsOut[i].deleted # <<>>
              /\ candsOut[i].contPrefix = detectContinuationPrefix(candsOut[i].deleted)
        /\ selIdx = 0 <=> candsOut = <<>>
        /\ candsOut # <<>> =>
              IF WithPrefix(candsOut) # {}
              THEN /\ selIdx \in WithPrefix(candsOut)
                   /\ \A j \in WithPrefix(candsOut) : j <= selIdx
              ELSE /\ selIdx \in 1..Len(candsOut)
                   /\ \A j \in 1..Len(candsOut) :
                         Len(candsOut[selIdx].inserted) <= Len(candsOut[j].inserted)

\* Two candidates with a continuation prefix: the later one is selected.
C18_Witness ==
    /\ Extracted /\ Cardinality(WithPrefix(candsOut)) = 2 /\ selIdx = 2
    /\ extracted = <<99, NL, 100>>

\* No candidate has a prefix and the second has the smaller Inserted.
C18_WitnessSmallest ==
    /\ Extracted /\ Len(candsOut) = 2 /\ WithPrefix(candsOut) = {} /\ selIdx = 2
    /\ Len(candsOut[2].inserted) < Len(candsOut[1].inserted)

\* C19: when the selected candidate's Inserted is at least as long as its
\* Deleted, extractOriginalInput returns the empty string.
C19_SymmetricSwapIsEmpty ==
    (Extracted /\ selIdx > 0) =>
        (Len(candsOut[selIdx].inserted) >= Len(candsOut[selIdx].deleted)
            => extracted = <<>>)

\* The same, for candidates selected by the smallest-Inserted rule only.
C19_FallbackSwapIsEmpty ==
    (Extracted /\ selIdx > 0 /\ WithPrefix(candsOut) = {}) =>
        (Len(candsOut[selIdx].inserted) >= Len(candsOut[selIdx].deleted)
            => extracted = <<>>)

\* C20: when the cleared capture is the original capture without a
\* non-empty single line at its end (output, prompt, typed line against
\* output, prompt), extractOriginalInput with N = 0 returns that line,
\* whatever the bytes before it.
C20_PromptAgnostic ==
    (Extracted /\ winN = 0) =>
        LET line == Drop(before, Min(Len(after), Len(before))) IN
        (/\ HasPrefix(before, after)
         /\ line # <<>>
         /\ ~Contains(line, <<NL>>))
        => extracted = line

\* The three-byte prompt glyph followed by a typed line with spaces around it.
C20_Witness ==
    /\ Extracted /\ after = OutputText \o <<226, 157, 175, SP>>
    /\ before = after \o <<SP, 97>>
    /\ extracted = <<SP, 97>>

\* The longest prefix of s made of bytes of the set only.
LeadingRun(s, set) ==
    LET n == CHOOSE k \in 0..Len(s) :
                 /\ \A i \in 1..k : s[i] \in set
                 /\ k = Len(s) \/ s[k + 1] \notin set
    IN Take(s, n)

\* The longest byte string every string of the non-empty set S starts with.
LongestCommonPrefix(S) ==
    LET s0 == CHOOSE s \in S : TRUE
        n == CHOOSE k \in 0..Len(s0) :
                 /\ \A s \in S : HasPrefix(s, Take(s0, k))
                 /\ k = Len(s0) \/ \E s \in S : ~HasPrefix(s, Take(s0, k + 1))
    IN Take(s0, n)

\* The non-empty lines after line 0 of a text, as a set of positions.
ContPositions(text) == { i \in 2..Len(SplitLines(text)) : SplitLines(text)[i] # <<>> }

\* The prefix the continuation lines of a deleted text are expected to
\* yield: with two or more non-empty continuation lines the whitelisted
\* start of what they all begin with, with one its leading spaces and tabs.
ExpectedPrefix(deleted) ==
    LET ls == SplitLines(deleted)
        cont == ContPositions(deleted)
    IN IF Cardinality(cont) >= 2
       THEN LeadingRun(LongestCommonPrefix({ ls[i] : i \in cont }), {SP, TAB, 46, 62, 124, 58})
       ELSE IF Cardinality(cont) = 1
       THEN LeadingRun(ls[CHOOSE i \in cont : TRUE], {SP, TAB})
       ELSE <<>>

\* The displayed input: what the original capture holds after the cleared one.
Displayed == Drop(before, Len(after))

\* C21 (as stated): for a multi-line input whose continuation lines are all
\* displayed behind the same continuation prefix, extractOriginalInput
\* returns the input itself, with only its trailing newlines trimmed.
C21_MultiLineExact ==
    (Extracted /\ scenario = "multiline") => extracted = TrimRight(typed, {NL})

\* C21: for such an input the result is the displayed text with line 0
\* untouched, the detected prefix (which takes in the blanks the
\* continuation lines share) removed once from each of lines 1..K that
\* starts with it, empty lines kept, and only trailing newlines trimmed.
C21_DetectedPrefixStripped ==
    (Extracted /\ scenario = "multiline") =>
        LET ls == SplitLines(Displayed)
            cp == ExpectedPrefix(Displayed)
            cleaned == [j \in 1..Len(ls) |->
                          IF j > 1 /\ cp # <<>> /\ HasPrefix(ls[j], cp)
                          THEN Drop(ls[j], Len(cp)) ELSE ls[j]]
        IN extracted = TrimRight(JoinLines(cleaned), {NL})

\* C21: the input is returned exactly when it is displayed behind the
\* two-space prefix and none of its continuation lines begins with a space.
C21_ExactWithoutIndent ==
    (/\ Extracted /\ scenario = "multiline"
     /\ LET ls == SplitLines(typed) IN
        \A i \in 2..Len(ls) : ls[i] = <<>> \/ ls[i][1] # SP
     /\ \E o \in {<<>>, OutputText} :
          HasPrefix(before, o \o PromptText \o SplitLines(typed)[1] \o <<NL>> \o ContPrefix))
        => extracted = TrimRight(typed, {NL})

\* A three-line input with an empty line in the middle, reconstructed.
C21_Witness ==
    /\ Extracted /\ scenario = "multiline"
    /\ typed = <<SP, SP, 97, NL, NL, 98, SP>>
    /\ before = OutputText \o PromptText \o <<SP, SP, 97, NL, NL, SP, SP, 98, SP>>
    /\ extracted = typed

\* C22: when the cleared input and a status text both change and a
\* separator line of 40 characters lies between them, extractOriginalInput
\* returns the cleared input, whatever the separator character and whether
\* the status text is above or below the input.
C22_InputBesideStatus ==
    (Extracted /\ scenario = "status") => extracted = typed

\* C22: the same, when the changed status text does not get shorter.
C22_InputBesideSteadyStatus ==
    (/\ Extracted /\ scenario = "status"
     /\ \A i \in 1..Len(candsOut) :
          candsOut[i].deleted # typed =>
              Len(candsOut[i].inserted) >= Len(candsOut[i].deleted))
        => extracted = typed

\* C23: when the input field is empty in both captures and only a status
\* text differs between them, or the captures are identical,
\* extractOriginalInput returns the empty string.
C23_NothingToRestore ==
    (Extracted /\ scenario \in {"status_only", "identical"}) => extracted = <<>>

\* C23: the same, for identical captures and for status texts none of whose
\* changed parts gets shorter.
C23_NothingToRestoreSteady ==
    (/\ Extracted /\ scenario \in {"status_only", "identical"}
     /\ \A i \in 1..Len(candsOut) :
          Len(candsOut[i].inserted) >= Len(candsOut[i].deleted))
        => extracted = <<>>

\* The number of bytes of the code point a leading byte starts, 0 for a
\* byte that cannot start one.
RuneWidth(c) ==
    IF c < 128 THEN 1
    ELSE IF c \in 192..223 THEN 2
    ELSE IF c \in 224..239 THEN 3
    ELSE IF c \in 240..247 THEN 4
    ELSE 0

\* TRUE when s is a sequence of whole code points.
RECURSIVE WellFormed(_)
WellFormed(s) ==
    \/ s = <<>>
    \/ LET w == RuneWidth(s[1]) IN
       /\ w > 0 /\ w <= Len(s)
       /\ \A i \in 2..w : s[i] \in 128..191
       /\ WellFormed(Drop(s, w))

\* The longest prefix of s that ends on a code-point boundary.
BoundaryCut(s) ==
    LET ks == { k \in 0..Len(s) : WellFormed(Take(s, k)) }
    IN Take(s, CHOOSE k \in ks : \A j \in ks : j <= k)

Detected == fstep = "detected"
ContLinesOf(text) == { SplitLines(text)[i] : i \in ContPositions(text) }

\* C24: with two or more non-empty continuation lines,
\* detectContinuationPrefix returns the longest common byte prefix of those
\* lines, cut back to a code-point boundary and then cut at the first byte
\* outside {space, tab, '.', '>', '|', ':'}; empty lines do not count.
C24_CommonWhitelistedPrefix ==
    (Detected /\ Cardinality(ContPositions(before)) >= 2) =>
        strOut = LeadingRun(BoundaryCut(LongestCommonPrefix(ContLinesOf(before))),
                            {SP, TAB, 46, 62, 124, 58})

\* Two dotted continuation lines with an empty line between them.
C24_Witness ==
    /\ Detected
    /\ before = <<97, NL, 46, 46, 58, SP, 97, NL, NL, 46, 46, 58, SP, 98>>
    /\ strOut = <<46, 46, 58, SP>>

\* Two continuation lines that differ inside a two-byte character.
C24_WitnessRune ==
    /\ Detected
    /\ before = <<NL, SP, SP, 195, 169, NL, SP, SP, 195, 168>>
    /\ strOut = <<SP, SP>>

\* The text with its line 0 replaced.
WithLine0(text, l0) == l0 \o Drop(text, IndexByte(text, NL))

\* C25: the detected prefix does not depend on line 0 (replacing line 0
\* leaves the result unchanged), and a region of one line has no prefix.
C25_Line0Ignored ==
    Detected =>
        /\ \A l0 \in { <<>>, <<98>>, <<SP, SP, 98>>, <<46, 46, 58, SP>>, <<TAB>> } :
              detectContinuationPrefix(WithLine0(before, l0)) = strOut
        /\ ~Contains(before, <<NL>>) => strOut = <<>>

\* An indented line 0 before two continuation lines with a shorter prefix.
C25_Witness ==
    /\ Detected
    /\ before = <<SP, SP, 97, NL, SP, SP, 97, NL, SP, TAB, 98>>
    /\ strOut = <<SP>>

\* An indented region of one line.
C25_WitnessSingle ==
    Detected /\ before = <<SP, SP, 97>> /\ strOut = <<>>

\* C26: with exactly one non-empty continuation line,
\* detectContinuationPrefix returns that line's leading run of spaces and
\* tabs and nothing else, also when the line begins with '.' or '>'.
C26_SingleLineBlanks ==
    (Detected /\ Cardinality(ContPositions(before)) = 1) =>
        strOut = LeadingRun(CHOOSE l \in ContLinesOf(before) : TRUE, {SP, TAB})

\* One continuation line with a space before '>'.
C26_Witness ==
    /\ Detected
    /\ before = <<97, NL, SP, 62, 97>>
    /\ strOut = <<SP>>

\* One dotted continuation line after an empty one: no prefix.
C26_WitnessDots ==
    /\ Detected
    /\ before = <<97, NL, NL, 46, 46, 58, SP, 97>>
    /\ strOut = <<>>

\* C27: for well-formed UTF-8 strings a and b, commonStringPrefix(a, b) is
\* a prefix of both that ends on a code-point boundary, and for ASCII-only
\* a and b it is their longest common prefix.
C27_PrefixOnBoundary ==
    (fstep = "common" /\ WellFormed(before) /\ WellFormed(after)) =>
        /\ HasPrefix(before, strOut)
        /\ HasPrefix(after, strOut)
        /\ WellFormed(strOut)
        /\ (\A i \in 1..Len(before) : before[i] < 128) /\
           (\A i \in 1..Len(after) : after[i] < 128)
              => strOut = LongestCommonPrefix({before, after})

\* Two three-byte characters that differ in their last byte, after an 'a'.
C27_Witness ==
    /\ fstep = "common"
    /\ before = <<97, 226, 157, 175>>
    /\ after = <<97, 226, 157, 174>>
    /\ strOut = <<97>>

\* C28: trimToNonContent(p) is the longest prefix of p made only of space,
\* tab, '.', '>', '|' and ':'; it stops at the first letter or digit, at
\* any byte >= 0x80 and at any other byte.
C28_LongestWhitelistedPrefix ==
    fstep = "trimmed" =>
        /\ HasPrefix(before, strOut)
        /\ \A i \in 1..Len(strOut) : strOut[i] \in {SP, TAB, 46, 62, 124, 58}
        /\ Len(strOut) < Len(before) =>
              before[Len(strOut) + 1] \notin {SP, TAB, 46, 62, 124, 58}

\* A dash stops the run although a dot follows it.
C28_Witness ==
    fstep = "trimmed" /\ before = <<58, 45, 46>> /\ strOut = <<58>>

\* The probe capture in which the sentinel was found (event 8, or event 17
\* after the vim retry) and the sentinel typed two events before it.
ProbeAt == IF FoundAt(6, 8) THEN 8 ELSE 17
ProbeLines == SplitLines(trace[ProbeAt].text)
SentinelLines == { i \in 1..Len(ProbeLines) : Contains(ProbeLines[i], trace[ProbeAt - 2].text) }

\* C29: when clearInput succeeds, its window size is the number of lines
\* between the last line of the probe capture that holds the sentinel and
\* the bottom of the capture, plus 2, and at least MIN_CAPTURE_N = 5.
C29_WindowFromLastSentinelLine ==
    clearErr = NoErr =>
        /\ SentinelLines # {}
        /\ LET last == CHOOSE i \in SentinelLines : \A j \in SentinelLines : j <= i
               below == Len(ProbeLines) - last
           IN captureN = IF below + 2 < 5 THEN 5 ELSE below + 2

\* The sentinel on the first of six input lines: a window of 7 lines.
C29_Witness ==
    clearErr = NoErr /\ captureN = 7 /\ Cardinality(SentinelLines) = 1

\* Two lines hold the sentinel and the lower one sets the window.
C29_WitnessLast ==
    clearErr = NoErr /\ captureN = 6 /\ SentinelLines = {2, 3}

\* The texts of the loop captures, oldest first; the detector is asked about
\* each one that differs from the capture before it.
LoopTexts ==
    LET w == WindowCaptures IN [i \in 1..(Len(w) - 1) |-> w[i + 1].text]

\* C30: the cycle detector fires on a state exactly when the state is among
\* the last 8 states it recorded, and what it holds is those last 8 states
\* (the state just asked about included, unless it fired).
C30_FiresIffInWindow ==
    AtLoopCapture =>
        LET texts == LoopTexts
            n == Len(texts)
            cur == texts[n]
            fired == clearErr = ErrClearStalled
            window == SubSeq(texts, Max(1, n - 8), n - 1)
        IN cur # trace[Len(trace) - 4].text =>
              /\ fired <=> \E j \in 1..Len(window) : window[j] = cur
              /\ recent = IF fired THEN window ELSE SubSeq(texts, Max(1, n - 7), n)

\* The states A, B, A: the detector fires on the second A.
C30_Witness ==
    /\ AtLoopCapture /\ clearErr = ErrClearStalled
    /\ LET texts == LoopTexts IN
          Len(texts) = 3 /\ texts[1] = texts[3] /\ texts[1] # texts[2]

\* A state recorded nine states ago and since dropped comes back unnoticed.
C30_WitnessEvicted ==
    /\ AtLoopCapture /\ clearErr = Pending
    /\ LET texts == LoopTexts IN Len(texts) = 10 /\ texts[10] = texts[1]
    /\ Len(recent) = 8

\* Eleven pairwise distinct states, none of which fires.
C30_WitnessDistinct ==
    /\ AtLoopCapture /\ clearErr = Pending
    /\ LET texts == LoopTexts IN
          Len(texts) = 11 /\ \A i, j \in 1..11 : i # j => texts[i] # texts[j]

\* The sentinel this delivery typed was not on the screen before.
FreshSentinel == sentinel # <<>> /\ ~Contains(originalCapture, sentinel)

RawKeyTokens == {"C-a", "C-k", "Enter", "Escape", "i"}

\* The sentinels the delivery has generated so far.
MadeSentinels == { e.text : e \in { x \in Events(trace) : x.op = "makeSentinel" } }

\* C32: every raw key token a delivery sends is one of C-a, C-k, Enter,
\* Escape, i, and every text it sends goes through the literal channel and
\* is a sentinel it generated, the message, or the restored input.
C32_KeyChannels ==
    \A i \in 1..Len(trace) :
        /\ trace[i].op = "raw" =>
                (trace[i].key \in RawKeyTokens /\ trace[i].text = <<>>)
        /\ trace[i].op = "literal" =>
                (trace[i].key = ""
                 /\ trace[i].text \in MadeSentinels \cup {message, originalInput})

\* A successful delivery that went through the vim retry and restored a
\* non-empty input has sent all five key tokens and all three kinds of text.
C32_Witness ==
    /\ Done /\ err = NoErr /\ originalInput # <<>>
    /\ { e.key : e \in { x \in Events(trace) : x.op = "raw" } } = RawKeyTokens
    /\ { e.text : e \in { x \in Events(trace) : x.op = "literal" } }
            = MadeSentinels \cup {message, originalInput}
    /\ Cardinality(MadeSentinels \cup {message, originalInput}) >= 3

\* The positions of the trace at which Enter was sent.
EnterSends == { i \in 1..Len(trace) : IsEnter(trace[i]) }

\* C38: a delivery sends Enter at most once; a delivery that returned nil
\* sent it exactly once, and a delivery that returned ErrPaneBlocked,
\* ErrPasteDetected, an error of clearInput or the error of the capture of
\* the cleared state did not send it.
C38_EnterOnce ==
    /\ Cardinality(EnterSends) <= 1
    /\ (Done /\ err = NoErr) =>
            (Cardinality(EnterSends) = 1 /\ \A i \in EnterSends : trace[i].ok)
    /\ (Done /\ (\/ err \in {ErrPaneBlocked, ErrPasteDetected}
                 \/ clearErr # NoErr
                 \/ err = <<"nudge">> \o DriverErr("capture after clear")))
            => EnterSends = {}

\* Deliveries of each kind: returned nil after one Enter; blocked; paste;
\* stalled clear; failed capture of the cleared state.
C38_Witness ==
    Done /\ err = NoErr /\ Cardinality(EnterSends) = 1 /\ originalInput # <<>>

C38_WitnessStalled ==
    Done /\ err = <<"nudge">> \o ErrClearStalled /\ EnterSends = {}

C38_WitnessCapture ==
    Done /\ err = <<"nudge">> \o DriverErr("capture after clear") /\ EnterSends = {}

\* C37: a loop capture equal to the capture just before it ends the loop
\* with success, never with ErrClearStalled, and from the second iteration
\* on that capture is in the detector's history when this happens.
C37_ConvergenceFirst ==
    AtLoopCapture =>
        LET texts == LoopTexts
            n == Len(texts)
        IN texts[n] = trace[Len(trace) - 4].text =>
              /\ clearErr = NoErr
              /\ n >= 2 => Check(recent, texts[n])

\* The loop converged in its third iteration on a capture the detector holds.
C37_Witness ==
    /\ AtLoopCapture /\ clearErr = NoErr
    /\ LET texts == LoopTexts IN
          /\ Len(texts) = 3 /\ texts[3] = texts[2] /\ texts[2] # texts[1]
          /\ Check(recent, texts[3])

\* The captures sq repeat with period p and are pairwise distinct within a
\* period.
Periodic(sq, p) ==
    /\ \A i \in 1..Len(sq) : sq[i] = sq[((i - 1) % p) + 1]
    /\ \A i, j \in 1..Min(p, Len(sq)) : i # j => sq[i] # sq[j]

\* C36: when the windowed captures, the initial one included, repeat with
\* period p, the loop stalls in iteration p + 1 and not before if
\* 2 <= p <= 8; if p >= 9 it never stalls and ends in iteration 200 with
\* the iteration-exceeded error.
C36_OscillationStalls ==
    AtLoopCapture =>
        LET w == WindowCaptures
            all == [i \in 1..Len(w) |-> w[i].text]
            n == Len(all) - 1
        IN \A p \in 2..10 :
              Periodic(all, p) =>
                 IF p <= 8
                 THEN /\ n <= p + 1
                      /\ (n = p + 1) => (clearErr = ErrClearStalled /\ Done)
                      /\ (n < p + 1) => clearErr = Pending
                 ELSE /\ n <= 200
                      /\ (n = 200) => (clearErr = ErrIterations /\ Done)
                      /\ (n < 200) => clearErr = Pending

\* Period 2: stalled in iteration 3.
C36_Witness ==
    /\ AtLoopCapture /\ clearErr = ErrClearStalled /\ pane.period = 2
    /\ Len(WindowCaptures) = 4
    /\ Periodic([i \in 1..4 |-> WindowCaptures[i].text], 2)

\* Period 8: stalled in iteration 9.
C36_WitnessEight ==
    /\ AtLoopCapture /\ clearErr = ErrClearStalled /\ pane.period = 8
    /\ Len(WindowCaptures) = 10
    /\ Periodic([i \in 1..10 |-> WindowCaptures[i].text], 8)

\* Periods 9 and 10: 200 iterations, then the iteration-exceeded error.
C36_WitnessNine ==
    /\ AtLoopCapture /\ clearErr = ErrIterations /\ pane.period = 9
    /\ Len(WindowCaptures) = 201
    /\ Periodic([i \in 1..201 |-> WindowCaptures[i].text], 9)

C36_WitnessTen ==
    /\ AtLoopCapture /\ clearErr = ErrIterations /\ pane.period = 10
    /\ Len(WindowCaptures) = 201
    /\ Periodic([i \in 1..201 |-> WindowCaptures[i].text], 10)

\* The number of lines of a capture.
LineCount(s) == Len(SplitLines(s))

\* C35: with the input within the last N lines, extraction from the
\* captures trimmed to their last N + 20 lines returns what extraction from
\* the untrimmed captures returns, also for a multi-line input.
C35_TrimTransparent ==
    (fstep = "extracted" /\ scenario = "trimmed" /\ LineCount(typed) <= winN)
        => extracted = extractOriginalInput(before, after, 0)

\* What holds: trimming changes nothing when both captures have the same
\* number of lines, or when the scrollback lines are numbered.
C35_TrimTransparentAligned ==
    (fstep = "extracted" /\ scenario = "trimmed" /\ LineCount(typed) <= winN
     /\ (LineCount(before) = LineCount(after) \/ before[1] \in 48..57))
        => extracted = extractOriginalInput(before, after, 0)

\* A three-line input under numbered scrollback, trimmed and extracted whole.
C35_WitnessAligned ==
    /\ fstep = "extracted" /\ scenario = "trimmed" /\ winN = nudgeMinCaptureN
    /\ before[1] \in 48..57 /\ LineCount(typed) = 3
    /\ LineCount(before) > winN + nudgeDiffMarginLines
    /\ extracted = <<SP, 97, NL, 98, NL, 99>>

\* What MyersDiff passes to computeMyersDiff: the inputs without their
\* common prefix and suffix.
CoreOf(a0, b0) ==
    LET p == commonPrefixLen(a0, b0)
        a1 == Drop(a0, p)
        b1 == Drop(b0, p)
        s == commonSuffixLen(a1, b1)
    IN << Take(a1, Len(a1) - s), Take(b1, Len(b1) - s) >>

\* The search of computeMyersDiff on the core of the harness inputs.
CoreSearch ==
    LET c == CoreOf(before, after)
        max == Len(c[1]) + Len(c[2])
        v == [k \in (-max)..max |-> 0]
    IN ForwardLoop(c[1], c[2], v, <<v>>, 0)

\* C39: for non-empty a and b without common prefix and suffix the search
\* reaches the end point at some d <= len(a) + len(b), uses only entries
\* of v between -max and max, and the call returns the edits backtrack
\* builds, not nil.
C39_SearchReachesEnd ==
    LET c == CoreOf(before, after)
        max == Len(c[1]) + Len(c[2])
    IN (fstep = "diffed" /\ c[1] # <<>> /\ c[2] # <<>>) =>
          /\ CoreSearch.found
          /\ CoreSearch.d <= max
          /\ CoreSearch.used \subseteq (-max)..max
          /\ computeMyersDiff(c[1], c[2]) # <<>>
          /\ DataOf(diffOut, {"delete", "insert"}) # <<>>

\* Inputs with no byte in common: the end point is reached only at d = max,
\* and the entry of diagonal -max is used.
C39_Witness ==
    /\ fstep = "diffed" /\ before = <<97, 97, 97, 97>> /\ after = <<98, 98, 98, 98>>
    /\ CoreSearch.found /\ CoreSearch.d = 8 /\ -8 \in CoreSearch.used
    /\ Len(DataOf(diffOut, {"delete", "insert"})) = 8

\* The windowed captures in a delivery's trace, the initial one first.
WindowTextsOf(tr) ==
    LET w == SelectSeq(SubSeq(tr, 3, Len(tr)), LAMBDA e : e.op = "capture" /\ e.ok)
    IN [i \in 1..Len(w) |-> w[i].text]

\* The last sentinel a delivery generated.
LastSentinelOf(tr) ==
    LET made == SelectSeq(tr, LAMBDA e : e.op = "makeSentinel")
    IN IF made = <<>> THEN <<>> ELSE made[Len(made)].text

\* The locals and the outcome of delivery c are what its own trace gives:
\* the sentinel it made last, its own full capture, prev, the detector's
\* history and the iteration count from its own loop captures, success of
\* the clear exactly on two equal own captures in a row, a stall exactly on
\* an own capture that its own history holds; and what its pane shows and
\* submits never holds the other delivery's message.
OwnState(c, otherMessage) ==
    LET w == WindowTextsOf(c.trace)
        loop == IF w = <<>> THEN <<>> ELSE Tail(w)
        ended == c.clearErr \in {NoErr, ErrClearStalled}
        rec == IF ended THEN Take(loop, Len(loop) - 1) ELSE loop
    IN /\ c.sentinel = LastSentinelOf(c.trace)
       /\ c.originalCapture =
             (IF Len(c.trace) >= 3 /\ c.trace[3].op = "capture_all" /\ c.trace[3].ok
              THEN c.trace[3].text ELSE <<>>)
       /\ c.prev = (IF w = <<>> THEN <<>> ELSE IF rec = <<>> THEN w[1] ELSE rec[Len(rec)])
       /\ c.recent = LastN(rec, cycleDetectorMaxLen)
       /\ c.iter = Len(rec)
       /\ ended => loop # <<>>
       /\ c.clearErr = NoErr => loop[Len(loop)] = c.prev
       /\ c.clearErr = ErrClearStalled =>
             (loop[Len(loop)] # c.prev /\ Check(c.recent, loop[Len(loop)]))
       /\ \A i \in 1..Len(c.trace) : ~Contains(c.trace[i].text, otherMessage)
       /\ \A i \in 1..Len(c.pane.submitted) :
             (Contains(c.pane.submitted[i], c.message)
              /\ ~Contains(c.pane.submitted[i], otherMessage))

C33_WitnessDone ==
    /\ Done /\ other.pc = "done"
    /\ {err, other.err} = {NoErr, <<"nudge">> \o ErrClearStalled}

\* Every Ctrl-C a nudgeSessionReliable call has sent, failed sends included.
InterruptSends == { i \in 1..Len(trace) : trace[i].op = "raw" /\ trace[i].key = "C-c" }

\* C34: a call of nudgeSessionReliable sends Ctrl-C at most once on every
\* path: none before the pre-checks have passed, one once it has gone past
\* the clear step, and whatever goes wrong afterwards (a failed send or
\* capture, a nudge that is not found, user typing) ends the call without
\* another one.
C34_SingleInterrupt ==
    /\ Cardinality(InterruptSends) <= 1
    /\ pc \in {"r_check_mode", "r_capture_before", "r_clear"} => InterruptSends = {}
    /\ pc \in {"r_inject", "r_capture_after", "r_escape", "r_enter"}
          => Cardinality(InterruptSends) = 1
    /\ Done /\ err \in {ErrPaneInMode, ErrPastePlaceholder} => InterruptSends = {}
    /\ Done /\ err \in {NoErr, ErrNudgeNotFound, ErrUserTyping}
          => Cardinality(InterruptSends) = 1

\* The user typed while the nudge was injected: the call has returned
\* ErrUserTyping after its one Ctrl-C.
C34_Witness ==
    /\ Done /\ err = ErrUserTyping
    /\ Cardinality(InterruptSends) = 1
    /\ \E i \in 1..Len(trace) : IsMessage(trace[i])

\* The pane ate the nudge: the call has returned ErrNudgeNotFound after its
\* one Ctrl-C.
C34_WitnessNotFound ==
    /\ Done /\ err = ErrNudgeNotFound
    /\ Cardinality(InterruptSends) = 1

\* The nudge is on the screen but in no hunk of the diff.
C34_WitnessNoHunk ==
    /\ Done /\ err = ErrNudgeNotFound
    /\ Index(after, message) >= 0

\* A pane-driver call failed after the Ctrl-C.
C34_WitnessDriverError ==
    /\ Done /\ err = <<"driver error">> /\ Cardinality(InterruptSends) = 1
    /\ trace[Len(trace)].op = "raw" /\ trace[Len(trace)].key = "Enter"

\* A clean delivery: one Ctrl-C, then the nudge, then Enter.
C34_WitnessDelivered ==
    /\ Done /\ err = NoErr /\ Cardinality(InterruptSends) = 1
    /\ pane.submitted = <<message>>

====
